---- MODULE Spec2Model ----
(***************************************************************************)
(* A model of magicinvoke's skip/cache engine (magicinvoke/magicinvoke.py): *)
(*   - skippable / _skippable, CallInfo, FileFlagChecker, timestamp_differ *)
(*     over a filesystem of timestamped files, marker files and pickled    *)
(*     return values;                                                      *)
(*   - get_params_from_ctx, the cascade that resolves a call's arguments;  *)
(*   - invoke's Task.__call__ with its pre, skip_ifs and post tasks         *)
(*     (invoke/tasks.py);                                                  *)
(*   - two invocations of _skippable that run at the same time.            *)
(* Python values are modelled by their repr, as strings.                   *)
(***************************************************************************)
EXTENDS Integers, Sequences, FiniteSets, Bags, TLC

\* Latest value of the filesystem clock (modification times are 0..MaxClock).
MaxClock == 1

VARIABLES
    now,        \* the filesystem clock: the mtime a write gets
    files,      \* user files: path -> mtime, defined on the paths that exist
    flagfiles,  \* <parent>/.minv/<name> marker beside a user path: path -> fingerprint
    cache,      \* pickled return values: cache key -> [data, mtime], on the files that exist
    cacheflags, \* the marker beside a cache file: cache key -> fingerprint
    targets,    \* the skippable callables this run calls
    call,       \* the last call of a skippable callable, [func, kw]; NoCall at first,
                \* and once a user file was written or deleted after it
    info,       \* the CallInfo of that call, as bind left it
    checker,    \* func.checker's care_about and last_result_path, as can_skip set
                \* them in that call
    body,       \* what the wrapped function did in that call
    raised,     \* the exception the call raised, "none" if it returned
    ret,        \* the value the call returned
    verdict,    \* the SkipResults of that call: [check, fs, result], each [skippable, reason]
    loadfail    \* TRUE iff checker.load raised in that call

skipvars == <<now, files, flagfiles, cache, cacheflags, targets, call, info,
              checker, body, raised, ret, verdict, loadfail>>

VARIABLES
    td_in,      \* timestamp_differ's input_filenames
    td_out,     \* timestamp_differ's output_filenames
    td_result   \* what timestamp_differ returned for them

tdvars == <<td_in, td_out, td_result>>

VARIABLES
    sig,        \* the defaults a get_params_from_ctx function declares for x and y
    given,      \* the last call of that function and what ctx holds
    resolved    \* what the call came to: the arguments func received, or the error

argvars == <<sig, given, resolved>>

VARIABLES
    wrapped,    \* signature(func).parameters of a function given to CallInfo
    classes     \* the parameter lists CallInfo.__init__ made of it

civars == <<wrapped, classes>>

VARIABLES
    magic       \* a function decorated with magictask: [func, kwargs], the keyword
                \* arguments being those magictask was given

mtvars == <<magic>>

VARIABLES
    task,       \* a Task: its pre and post tasks, what its skip_ifs return, what
                \* its body does, and who calls it
    pc,         \* where Task.__call__ is
    idx,        \* the task of the list it is at
    run,        \* what before_call returned
    events,     \* the tasks and the body called so far, in order
    outcome     \* how the call ended

tkvars == <<task, pc, idx, run, events, outcome>>

VARIABLES
    invocations, \* the invocations that run at the same time: for each its
                 \* keyword arguments and the statement of _skippable it is at
    made         \* for each output file, the fingerprint of the invocation
                 \* whose run of the wrapped function wrote it last

ccvars == <<invocations, made>>

vars == <<skipvars, tdvars, argvars, civars, mtvars, tkvars, ccvars>>

----------------------------------------------------------------------------
(* Python values *)

None == "None"
PyTrue == "True"
PyFalse == "False"
\* A value Path() refuses although it is truthy (tests/magic.py:215 passes a lambda).
BadPath == "<lambda>"
\* Parameter.empty: the parameter declares no default.
Empty == "<empty>"

\* bool(v) for the values of the model.
Truthy(v) == v \notin {None, PyFalse}

SeqToSet(s) == {s[i] : i \in DOMAIN s}

----------------------------------------------------------------------------
(* The wrapped callables: their signatures as skippable() leaves them,      *)
(* with the keyword-only _clean and _force_run added.                       *)

Funcs == {"build", "func", "gen", "get_output", "link", "get_tool_output", "myfunc", "optional_param", "run"}

\* signature(func).parameters, in declaration order.
Sigs == [build |-> <<"input_path", "output_path", "flag", "_clean", "_force_run">>,
         func  |-> <<"val", "_clean", "_force_run">>,
         gen   |-> <<"output_path", "_clean", "_force_run">>,
         get_output |-> <<"input_path", "output_path", "_quiet", "_clean", "_force_run">>,
         link  |-> <<"ctx", "objectfiles", "executable_path", "_clean", "_force_run">>,
         get_tool_output |-> <<"input_file", "output_file", "_clean", "_force_run">>,
         myfunc |-> <<"output_path", "_clean", "_force_run">>,
         optional_param |-> <<"opt", "flag", "_clean", "_force_run">>,
         run   |-> <<"input_path", "_clean", "_force_run">>]

\* param.default
Defaults == [input_path |-> Empty, output_path |-> Empty, flag |-> PyTrue,
             ctx |-> Empty, objectfiles |-> Empty, executable_path |-> Empty,
             input_file |-> Empty, output_file |-> Empty,
             val |-> Empty, opt |-> "1", _quiet |-> PyFalse, _clean |-> PyFalse,
             _force_run |-> PyFalse]

\* The words of CallInfo.__init__ that occur in param_name.lower().
NameWords == [input_path |-> {"input", "path"}, output_path |-> {"output", "path"},
              flag |-> {}, val |-> {}, opt |-> {}, _quiet |-> {}, _clean |-> {}, _force_run |-> {},
              ctx |-> {}, path |-> {"path"}, output_file |-> {"output", "file"},
              input_file |-> {"input", "file"},
              _output_dir |-> {"output"}, objectfiles |-> {"file"},
              executable_path |-> {"path"}]

\* param_name.startswith("_")
StartsWithUnderscore(p) == p \in {"_quiet", "_clean", "_force_run", "_output_dir"}

InputPath == "input"
OutputPath == "output"

\* param.annotation: link(ctx, objectfiles: [InputPath], executable_path:
\* OutputPath) annotates its parameters, the other callables do not.
Annotation(f, p) ==
    IF f = "link" /\ p = "objectfiles" THEN InputPath
    ELSE IF f = "link" /\ p = "executable_path" THEN OutputPath
    ELSE Empty

----------------------------------------------------------------------------
(* CallInfo *)

\* _get_full_name(func)
_get_full_name(f) == f

\* signature(func).parameters: the name and the annotation of each parameter.
Parameters(f) ==
    [i \in DOMAIN Sigs[f] |->
        [name |-> Sigs[f][i], annotation |-> Annotation(f, Sigs[f][i])]]

\* The names of a sequence of parameters.
Names(parameters) == [i \in DOMAIN parameters |-> parameters[i].name]

\* A _look_for_params_with that forgets which parameters it has classified.
_look_for_params_anew(parameters, type_annotation, words_to_match, taken) ==
    Names(SelectSeq(parameters, LAMBDA param :
        /\ param.name \notin {"ctx", "c"}
        /\ \/ param.annotation = type_annotation
           \/ /\ \E w \in words_to_match : w \in NameWords[param.name]
              /\ ~StartsWithUnderscore(param.name)))

\* CallInfo._look_for_params_with: the parameters, in declaration order, whose
\* annotation is type_annotation or whose name holds one of words_to_match,
\* and that are not yet taken, that is in self.params_that_are_filenames.
_look_for_params_with(parameters, type_annotation, words_to_match, taken) ==
    Names(SelectSeq(parameters, LAMBDA param :
        /\ param.name \notin {"ctx", "c"}
        /\ \/ param.annotation = type_annotation
           \/ /\ \E w \in words_to_match : w \in NameWords[param.name]
              /\ ~StartsWithUnderscore(param.name)
        /\ param.name \notin taken))

\* Behavior parameters that take in the names that start with an underscore.
UnderscoresModifyBehavior(parameters) ==
    SelectSeq(Names(parameters), LAMBDA param_name :
        /\ param_name \notin {"ctx", "c"}
        /\ param_name \notin SeqToSet(_look_for_params_with(parameters, OutputPath, {"output"}, {}))
        /\ param_name \notin SeqToSet(_look_for_params_with(parameters, InputPath, {"input", "path", "file"}, {})))

\* CallInfo.__init__ on a signature: self.output_params, self.input_params
\* and self.params_modify_behavior.
OutputParams(parameters) ==
    _look_for_params_with(parameters, OutputPath, {"output"}, {})

InputParams(parameters) ==
    _look_for_params_with(parameters, InputPath, {"input", "path", "file"},
                          SeqToSet(OutputParams(parameters)))

ParamsModifyBehavior(parameters) ==
    SelectSeq(Names(parameters), LAMBDA param_name :
        /\ ~StartsWithUnderscore(param_name)
        /\ param_name \notin {"ctx", "c"}
        /\ param_name \notin SeqToSet(OutputParams(parameters))
        /\ param_name \notin SeqToSet(InputParams(parameters)))

\* CallInfo.__init__: self.output_params
output_params(f) == OutputParams(Parameters(f))

\* CallInfo.__init__: self.input_params
input_params(f) == InputParams(Parameters(f))

\* CallInfo.__init__: self.params_modify_behavior
params_modify_behavior(f) == ParamsModifyBehavior(Parameters(f))


\* A generated function that hands on the arguments as the caller passed
\* them, def f(*args, **kwargs): return _skippable(func, *args, **kwargs).
decorate_as_passed(f, kw) == kw

\* decorate(func, _skippable): the function it generates has the signature of
\* func and hands each of its parameters on to _skippable, the keyword-only
\* ones by keyword, so a parameter the caller left out arrives with its
\* declared default. A parameter without default that was left out is not
\* handed on: the call is a TypeError.
decorate(f, kw) ==
    [p \in {q \in SeqToSet(Sigs[f]) : q \in DOMAIN kw \/ Defaults[q] # Empty} |->
        IF p \in DOMAIN kw THEN kw[p] ELSE Defaults[p]]

\* sig.bind(*args, **kwargs) raises TypeError: a parameter without default is not passed.
BindFails(f, kw) ==
    \E p \in SeqToSet(Sigs[f]) : p \notin DOMAIN kw /\ Defaults[p] = Empty

\* CallInfo.bind: ba.arguments after the defaults are filled in. The passed
\* parameters come first, in declaration order, the defaulted ones after them.
BoundOrder(f, kw) ==
    SelectSeq(Sigs[f], LAMBDA p : p \in DOMAIN kw)
        \o SelectSeq(Sigs[f], LAMBDA p : p \notin DOMAIN kw)

BoundValue(kw, p) == IF p \in DOMAIN kw THEN kw[p] ELSE Defaults[p]

\* Path(p) raises TypeError.
PathRefuses(p) == p \in {None, PyFalse, BadPath}

\* repr of the list of rejected values of a parameter.
ReprOfList(p) == IF p = None THEN "[None]" ELSE "[False]"

\* CallInfo._coerce_paths, the paths returned for param_names.
RECURSIVE CoercedPaths(_, _)
CoercedPaths(kw, param_names) ==
    IF param_names = << >> THEN << >>
    ELSE LET p == BoundValue(kw, Head(param_names))
         IN  (IF PathRefuses(p) THEN << >> ELSE <<p>>)
                 \o CoercedPaths(kw, Tail(param_names))

\* CallInfo._coerce_paths, the (name, rejected_values) pairs it appends to the
\* flags: a refused value that is falsy is logged and rejected.
RECURSIVE RejectedFlags(_, _)
RejectedFlags(kw, param_names) ==
    IF param_names = << >> THEN << >>
    ELSE LET p == BoundValue(kw, Head(param_names))
         IN  (IF PathRefuses(p) /\ ~Truthy(p)
                 THEN << <<Head(param_names), ReprOfList(p)>> >> ELSE << >>)
                 \o RejectedFlags(kw, Tail(param_names))

\* A _coerce_paths that rejects every refused value and never raises.
CoerceRejectsAll(kw, param_names) == FALSE

\* CallInfo._coerce_paths raises: a refused value that is truthy.
CoerceRaises(kw, param_names) ==
    \E i \in DOMAIN param_names :
        LET p == BoundValue(kw, param_names[i]) IN PathRefuses(p) /\ Truthy(p)

\* CallInfo.bind: self.flags before the path coercion appends to it.
BoundFlags(f, kw) ==
    LET order == SelectSeq(BoundOrder(f, kw),
                           LAMBDA p : p \in SeqToSet(params_modify_behavior(f)))
    IN  [i \in DOMAIN order |-> <<order[i], BoundValue(kw, order[i])>>]

\* CallInfo(func).bind(args, kwargs): the call's TypeError, or its flags and paths.
bind(f, kw) ==
    IF BindFails(f, kw)
           \/ CoerceRaises(kw, output_params(f))
           \/ CoerceRaises(kw, input_params(f))
    THEN [error |-> TRUE, name |-> _get_full_name(f), flags |-> << >>,
          output_paths |-> << >>, input_paths |-> << >>]
    ELSE [error |-> FALSE,
          name |-> _get_full_name(f),
          flags |-> BoundFlags(f, kw)
                      \o RejectedFlags(kw, output_params(f))
                      \o RejectedFlags(kw, input_params(f)),
          output_paths |-> CoercedPaths(kw, output_params(f)),
          input_paths |-> CoercedPaths(kw, input_params(f))]

\* An identify that leaves the flags out: every call of a function with the
\* same paths gets the same cache file.
identify_without_flags(ci) ==
    << <<"task", ci.name>> >>
        \o [i \in DOMAIN ci.input_paths |-> <<"path", ci.input_paths[i]>>]
        \o [i \in DOMAIN ci.output_paths |-> <<"path", ci.output_paths[i]>>]
        \o << <<"code", ci.name>> >>

\* CallInfo.identify: the strings that make the call unique.
identify(ci) ==
    << <<"task", ci.name>> >>
        \o [i \in DOMAIN ci.input_paths |-> <<"path", ci.input_paths[i]>>]
        \o [i \in DOMAIN ci.output_paths |-> <<"path", ci.output_paths[i]>>]
        \o ci.flags
        \o << <<"code", ci.name>> >>

\* sum(...) over a sequence of digests: the digests are taken to be free of
\* collisions, and a sum does not depend on the order of its terms.
SumOfDigests(s) ==
    [x \in SeqToSet(s) |-> Cardinality({i \in DOMAIN s : s[i] = x})]

\* CallInfo.persistent_hash
persistent_hash(ci) == SumOfDigests(identify(ci))

----------------------------------------------------------------------------
(* The files the engine reads and writes *)

\* A function with key k set to v, and with the keys of S removed.
Put(fn, k, v) == [x \in DOMAIN fn \cup {k} |-> IF x = k THEN v ELSE fn[x]]
Without(fn, S) == [x \in DOMAIN fn \ S |-> fn[x]]

\* The four kinds of file as one value.
Disk == [files |-> files, flagfiles |-> flagfiles, cache |-> cache,
         cacheflags |-> cacheflags]

NoFingerprint == [task |-> "", flags |-> << >>]

\* path.exists(), path.stat().st_mtime and the marker beside a user path.
StatPath(fs, p) ==
    [label |-> p,
     exists |-> p \in DOMAIN fs.files,
     mtime |-> IF p \in DOMAIN fs.files THEN fs.files[p] ELSE 0,
     hasflag |-> p \in DOMAIN fs.flagfiles,
     flag |-> IF p \in DOMAIN fs.flagfiles THEN fs.flagfiles[p] ELSE NoFingerprint]

\* The same of a cache file, CachePath(".minv", name, hash).
StatCache(fs, key) ==
    [label |-> "<last_result_path>",
     exists |-> key \in DOMAIN fs.cache,
     mtime |-> IF key \in DOMAIN fs.cache THEN fs.cache[key].mtime ELSE 0,
     hasflag |-> key \in DOMAIN fs.cacheflags,
     flag |-> IF key \in DOMAIN fs.cacheflags THEN fs.cacheflags[key]
              ELSE NoFingerprint]

\* pickle.dump and pickle.load on the values a wrapped function returns.
Unpicklable == "<function>"
Truncated == <<"", "">>
Pickle(v) == <<"pickle.v3", v>>
Unpickles(data) == data[1] = "pickle.v3"
Unpickle(data) == data[2]

----------------------------------------------------------------------------
(* timestamp_differ *)

SkipResult(skippable, reason, path) ==
    [skippable |-> skippable, reason |-> <<reason, path>>]

\* sorted(l, key=lambda pi: pi.modified), a stable insertion sort.
RECURSIVE InsertByTimestamp(_, _)
InsertByTimestamp(pi, l) ==
    IF l = << >> THEN <<pi>>
    ELSE IF pi.mtime < Head(l).mtime THEN <<pi>> \o l
    ELSE <<Head(l)>> \o InsertByTimestamp(pi, Tail(l))

\* A sorted() that leaves the list in the order it came.
unsorted(l) == l

RECURSIVE sort_by_timestamps(_)
sort_by_timestamps(l) ==
    IF l = << >> THEN << >>
    ELSE InsertByTimestamp(l[Len(l)], sort_by_timestamps(SubSeq(l, 1, Len(l) - 1)))

\* A search for missing paths that finds none.
NoneMissing(l) == << >>

\* The first path of the list that does not exist, as a one-element sequence.
FirstMissing(l) ==
    LET absent == SelectSeq(l, LAMBDA st : ~st.exists)
    IN  IF absent = << >> THEN << >> ELSE <<Head(absent)>>

\* A timestamp_differ that looks for missing files before it asks whether
\* there are outputs at all.
timestamp_differ_existence_first(input_filenames, output_filenames) ==
    LET missing == FirstMissing(input_filenames \o output_filenames) IN
    IF missing # << >>
    THEN SkipResult(FALSE, "missing", missing[1].label)
    ELSE IF output_filenames = << >>
    THEN SkipResult(FALSE, "has_outputs:False", "")
    ELSE IF input_filenames = << >>
    THEN SkipResult(TRUE, "task's outputs exist, but no inputs required", "")
    ELSE LET oldest_output == sort_by_timestamps(output_filenames)[1]
             youngest_input ==
                 sort_by_timestamps(input_filenames)[Len(input_filenames)]
         IN  SkipResult(youngest_input.mtime < oldest_output.mtime,
                        "youngest_input, oldest_output", youngest_input.label)

\* A timestamp_differ that runs whatever has no inputs.
timestamp_differ_needs_inputs(input_filenames, output_filenames) ==
    IF output_filenames = << >> \/ input_filenames = << >>
    THEN SkipResult(FALSE, "has_outputs:False", "")
    ELSE LET missing == FirstMissing(input_filenames \o output_filenames) IN
         IF missing # << >>
         THEN SkipResult(FALSE, "missing", missing[1].label)
         ELSE LET oldest_output == sort_by_timestamps(output_filenames)[1]
                  youngest_input ==
                      sort_by_timestamps(input_filenames)[Len(input_filenames)]
              IN  SkipResult(youngest_input.mtime < oldest_output.mtime,
                             "youngest_input, oldest_output", youngest_input.label)

\* timestamp_differ(input_filenames, output_filenames), on the stat of each path.
timestamp_differ(input_filenames, output_filenames) ==
    IF output_filenames = << >>
    THEN SkipResult(FALSE, "has_outputs:False", "")
    ELSE LET missing == FirstMissing(input_filenames \o output_filenames) IN
         IF missing # << >>
         THEN SkipResult(FALSE, "missing", missing[1].label)
         ELSE IF input_filenames = << >>
         THEN SkipResult(TRUE, "task's outputs exist, but no inputs required", "")
         ELSE LET oldest_output == sort_by_timestamps(output_filenames)[1]
                  youngest_input ==
                      sort_by_timestamps(input_filenames)[Len(input_filenames)]
              IN  SkipResult(youngest_input.mtime < oldest_output.mtime,
                             "youngest_input, oldest_output", youngest_input.label)

----------------------------------------------------------------------------
(* FileFlagChecker *)

\* can_skip: self.care_about, the digest of the task name and the flags.
care_about(ci) == [task |-> ci.name, flags |-> ci.flags]

\* can_skip: self.last_result_path
last_result_path(ci) == [name |-> ci.name, hash |-> persistent_hash(ci)]

\* A can_skip that does not append last_result_path to ci.output_paths.
OwnOutputStats(ci, fs) ==
    [i \in DOMAIN ci.output_paths |-> StatPath(fs, ci.output_paths[i])]

\* ci.output_paths once can_skip has appended last_result_path to it.
OutputStats(ci, fs) ==
    [i \in DOMAIN ci.output_paths |-> StatPath(fs, ci.output_paths[i])]
        \o <<StatCache(fs, last_result_path(ci))>>

InputStats(ci, fs) ==
    [i \in DOMAIN ci.input_paths |-> StatPath(fs, ci.input_paths[i])]

\* A can_skip that takes an output without marker for one made with other flags.
can_skip_needs_markers(ci, fs) ==
    LET outs == OutputStats(ci, fs)
    IN  IF ci.flags = << >> THEN SkipResult(TRUE, "has no flags", "")
        ELSE SkipResult(\A i \in DOMAIN outs :
                            /\ outs[i].exists
                            /\ outs[i].hasflag
                            /\ outs[i].flag = care_about(ci),
                        "last generated with flags", "")

\* FileFlagChecker.can_skip
can_skip(ci, fs) ==
    LET outs == OutputStats(ci, fs)
        absent == FirstMissing(outs)
        failed == SelectSeq(outs, LAMBDA st : st.hasflag /\ st.flag # care_about(ci))
    IN  IF ci.flags = << >> THEN SkipResult(TRUE, "has no flags", "")
        ELSE IF absent # << >>
        THEN SkipResult(FALSE, "doesn't exist yet", absent[1].label)
        ELSE IF failed # << >>
        THEN SkipResult(FALSE, "last generated with different flags",
                        failed[Len(failed)].label)
        ELSE SkipResult(TRUE, "no files were last generated with same flags", "")

\* A clean that leaves the callable's cache directory alone.
clean_keeps_cache(ci, fs) ==
    [fs EXCEPT !.flagfiles = Without(@, SeqToSet(ci.output_paths))]


\* A clean that removes the cache file of the call's own arguments only.
clean_own_cache(ci, fs) ==
    [fs EXCEPT !.flagfiles = Without(@, SeqToSet(ci.output_paths)),
               !.cache = Without(@, {last_result_path(ci)}),
               !.cacheflags = Without(@, {last_result_path(ci)})]

\* FileFlagChecker.clean: the markers of the output paths and the callable's
\* whole cache directory, markers of the cache files included.
clean(ci, fs) ==
    LET gone == {k \in DOMAIN fs.cache \cup DOMAIN fs.cacheflags : k.name = ci.name}
    IN  [fs EXCEPT !.flagfiles = Without(@, SeqToSet(ci.output_paths)),
                   !.cache = Without(@, gone),
                   !.cacheflags = Without(@, gone)]

\* An after_run that writes a marker only where there is none yet: a marker
\* stays with the callable that first recorded the path.
WriteFlags_keeps_first(ci, fs) ==
    [fs EXCEPT !.flagfiles = [p \in DOMAIN @ \cup SeqToSet(ci.output_paths) |->
                                 IF p \in DOMAIN @ THEN @[p] ELSE care_about(ci)],
               !.cacheflags = Put(@, last_result_path(ci), care_about(ci))]

\* FileFlagChecker.after_run, the marker of every output path.
WriteFlags(ci, fs) ==
    [fs EXCEPT !.flagfiles = [p \in DOMAIN @ \cup SeqToSet(ci.output_paths) |->
                                 IF p \in SeqToSet(ci.output_paths)
                                 THEN care_about(ci) ELSE @[p]],
               !.cacheflags = Put(@, last_result_path(ci), care_about(ci))]

\* An after_run that lets the error of pickle.dump through as it is.
after_run_reraises(result) ==
    IF result = "<function>" THEN "PicklingError" ELSE "none"

\* FileFlagChecker.after_run: pickle.dump raises.
SaveFails(result) == result = Unpicklable

\* An after_run that writes the markers and forgets the return value.
after_run_markers_only(ci, fs, result, clock) == WriteFlags(ci, fs)

\* An after_run that pickles the return value first and writes the markers
\* once that is done.
after_run_pickle_first(ci, fs, result, clock) ==
    [(IF SaveFails(result) THEN fs ELSE WriteFlags(ci, fs)) EXCEPT
        !.cache = Put(@, last_result_path(ci),
                      [data |-> IF SaveFails(result) THEN Truncated ELSE Pickle(result),
                       mtime |-> clock])]


\* An after_run that pickles the value before it opens the cache file: when
\* pickling raises, the cache file of an earlier run is left as it was.
after_run_dumps_first(ci, fs, result, clock) ==
    IF SaveFails(result) THEN WriteFlags(ci, fs)
    ELSE [WriteFlags(ci, fs) EXCEPT
             !.cache = Put(@, last_result_path(ci),
                           [data |-> Pickle(result), mtime |-> clock])]

\* FileFlagChecker.after_run: open("wb") truncates the cache file, and
\* pickle.dump fills it unless it raises.
after_run(ci, fs, result, clock) ==
    [WriteFlags(ci, fs) EXCEPT
        !.cache = Put(@, last_result_path(ci),
                      [data |-> IF SaveFails(result) THEN Truncated ELSE Pickle(result),
                       mtime |-> clock])]

\* FileFlagChecker.after_run: the exception it raises, "none" if it returns.
after_run_raises(result) ==
    IF SaveFails(result) THEN "SaveReturnvalueError" ELSE "none"

\* A load that never raises.
LoadNeverFails(ci, fs) == FALSE

\* FileFlagChecker.load raises.
LoadFails(ci, fs) ==
    \/ last_result_path(ci) \notin DOMAIN fs.cache
    \/ ~Unpickles(fs.cache[last_result_path(ci)].data)

\* FileFlagChecker.load
load(ci, fs) == Unpickle(fs.cache[last_result_path(ci)].data)

----------------------------------------------------------------------------
(* The calls of a run *)

\* The values a call passes for a parameter; a parameter with a default may
\* be left out.
ArgValues(f, p) ==
    CASE p = "input_path" -> {"src"}
      [] p = "objectfiles" -> {"src"}
      [] p = "executable_path" -> {"o1"}
      [] p = "ctx" -> {"<Context>"}
      [] p = "output_path" -> IF f = "gen" THEN {"o1", "o2", BadPath}
                              ELSE IF f = "myfunc" THEN {"o1", None, PyFalse, BadPath}
                              ELSE {"o1"}
      [] p = "flag" -> IF f = "optional_param" THEN {PyTrue, PyFalse} ELSE {PyFalse}
      [] p = "opt" -> {"1"}
      [] p \in {"input_file", "output_file"} -> {"x", "y"}
      [] f = "get_tool_output" -> {}
      [] p = "val" -> {PyTrue, PyFalse}
      [] OTHER -> {PyTrue}

\* The keyword arguments of the calls to f that pass parameters ps.
RECURSIVE KwArgs(_, _)
KwArgs(f, ps) ==
    IF ps = << >> THEN {<< >>}
    ELSE LET rest == KwArgs(f, Tail(ps))
         IN  {Put(kw, Head(ps), v) : kw \in rest, v \in ArgValues(f, Head(ps))}
                 \cup (IF Defaults[Head(ps)] = Empty THEN {} ELSE rest)

Calls(f) == KwArgs(f, Sigs[f])

\* The user paths the calls to f can name.
PathsOf(f) ==
    UNION {ArgValues(f, p) \ {None, PyFalse, BadPath} :
              p \in SeqToSet(output_params(f)) \cup SeqToSet(input_params(f))}

----------------------------------------------------------------------------
(* _skippable, the function that decorate() puts around the wrapped one *)


\* A summary formatted once can_skip has appended last_result_path to
\* ci.output_paths: it counts the cache file too.
CleanSummaryWithCache(n) ==
    <<"Cleaned all 1 output files!", "Cleaned all 2 output files!",
      "Cleaned all 3 output files!">>[n + 1]

\* "Cleaned all {} output files!".format(n)
CleanSummary(n) ==
    <<"Cleaned all 0 output files!", "Cleaned all 1 output files!",
      "Cleaned all 2 output files!">>[n + 1]

\* A _skippable that takes no notice of _force_run.
force_run_never(kw) == FALSE

\* A kwargs.pop("_force_run", True).
force_run_always(kw) == TRUE

\* A _skippable that takes no notice of _clean.
clean_never(kw) == FALSE

\* kwargs.pop("_force_run", False) and kwargs.pop("_clean", False)
force_run(kw) == IF "_force_run" \in DOMAIN kw THEN Truthy(kw["_force_run"]) ELSE FALSE
clean_requested(kw) == IF "_clean" \in DOMAIN kw THEN Truthy(kw["_clean"]) ELSE FALSE

\* _skippable: for p in ci.output_paths: p.rm(); func.checker.clean(ci)
CleanAll(ci, fs) ==
    clean(ci, [fs EXCEPT !.files = Without(@, SeqToSet(ci.output_paths))])

\* The files as can_skip finds them.
Checked(ci, kw, fs) == IF clean_requested(kw) THEN CleanAll(ci, fs) ELSE fs

\* _timestamp_differ(ci)
_timestamp_differ(ci, fs) == timestamp_differ(InputStats(ci, fs), OutputStats(ci, fs))

\* A result that is the timestamp result alone.
fs_result_alone(check_result, fs_result) == fs_result

\* A result that consults the timestamp check before the flag check.
ResultTimestampFirst(check_result, fs_result) ==
    IF ~fs_result.skippable THEN fs_result
    ELSE IF ~check_result.skippable THEN check_result
    ELSE fs_result

\* _skippable: next(filterfalse(lambda x: x.skippable, (check_result, fs_result)), None),
\* and fs_result when that is None.
Result(check_result, fs_result) ==
    IF ~check_result.skippable THEN check_result
    ELSE IF ~fs_result.skippable THEN fs_result
    ELSE fs_result

NoVerdict == [check |-> SkipResult(FALSE, "", ""), fs |-> SkipResult(FALSE, "", ""),
              result |-> SkipResult(FALSE, "", "")]

\* _skippable: check_result, fs_result and result
Verdict(ci, fs) ==
    LET check_result == can_skip(ci, fs)
        fs_result == _timestamp_differ(ci, fs)
    IN  [check |-> check_result, fs |-> fs_result,
         result |-> Result(check_result, fs_result)]

\* The wrapped function, func(*args, **kwargs): it writes some of its output
\* paths, then returns a value or raises.
BodyReturns == {"r1", "r2", Unpicklable}
BodyRaises == "raise"
RunBody(ci, fs, writes, clock) ==
    [fs EXCEPT !.files = [p \in DOMAIN @ \cup writes |->
                             IF p \in writes THEN clock ELSE @[p]]]

\* _skippable up to the decision: the CallInfo, the files once a requested
\* clean is done, the check results, and what the call does next: it raises
\* bind's TypeError, returns the clean summary, loads the cached value, or runs
\* the wrapped function (after a load that failed, if loadfail).
_skippable_check(f, kw, fs0) ==
    LET ci == bind(f, decorate(f, kw))
        fs1 == Checked(ci, kw, fs0)
        v == Verdict(ci, fs1)
        tryload == v.result.skippable /\ ~force_run(kw)
    IN  IF ci.error
        THEN [ci |-> ci, fs |-> fs0, verdict |-> NoVerdict, next |-> "TypeError",
              loadfail |-> FALSE]
        ELSE IF clean_requested(kw) /\ ~force_run(kw)
        THEN [ci |-> ci, fs |-> fs1, verdict |-> NoVerdict, next |-> "cleaned",
              loadfail |-> FALSE]
        ELSE IF tryload /\ ~LoadFails(ci, fs1)
        THEN [ci |-> ci, fs |-> fs1, verdict |-> v, next |-> "load",
              loadfail |-> FALSE]
        ELSE [ci |-> ci, fs |-> fs1, verdict |-> v, next |-> "run",
              loadfail |-> tryload]


\* A _skippable that goes on to checker.after_run with the value it loaded:
\* a skipped call writes the markers and the cache file again.
_skippable_finish_saves_skips(c, does, writes, clock) ==
    LET ci == c.ci
        early == [fs |-> c.fs, body |-> "not run", raised |-> "none", ret |-> None]
        fs2 == RunBody(ci, c.fs, writes, clock)
    IN  CASE c.next = "TypeError" -> [early EXCEPT !.raised = "TypeError"]
          [] c.next = "cleaned" ->
                 [early EXCEPT !.ret = CleanSummary(Len(ci.output_paths))]
          [] c.next = "load" ->
                 [early EXCEPT !.ret = load(ci, c.fs),
                               !.fs = after_run(ci, c.fs, load(ci, c.fs), clock)]
          [] c.next = "run" /\ does = BodyRaises ->
                 [fs |-> fs2, body |-> does, raised |-> "BodyError", ret |-> None]
          [] OTHER ->
                 [fs |-> after_run(ci, fs2, does, clock),
                  body |-> does,
                  raised |-> after_run_raises(does),
                  ret |-> IF SaveFails(does) THEN None ELSE does]

\* _skippable from the decision on: the files it leaves and the outcome.
\* The wrapped function, if it runs, writes `writes` and ends as `does`.
_skippable_finish(c, does, writes, clock) ==
    LET ci == c.ci
        early == [fs |-> c.fs, body |-> "not run", raised |-> "none", ret |-> None]
        fs2 == RunBody(ci, c.fs, writes, clock)
    IN  CASE c.next = "TypeError" -> [early EXCEPT !.raised = "TypeError"]
          [] c.next = "cleaned" ->
                 [early EXCEPT !.ret = CleanSummary(Len(ci.output_paths))]
          [] c.next = "load" -> [early EXCEPT !.ret = load(ci, c.fs)]
          [] c.next = "run" /\ does = BodyRaises ->
                 [fs |-> fs2, body |-> does, raised |-> "BodyError", ret |-> None]
          [] OTHER ->
                 [fs |-> after_run(ci, fs2, does, clock),
                  body |-> does,
                  raised |-> after_run_raises(does),
                  ret |-> IF SaveFails(does) THEN None ELSE does]

----------------------------------------------------------------------------
(* The calls and the filesystem events of a run *)

NoCall == [func |-> "", kw |-> << >>]

\* No CallInfo: nothing was bound.
NoCallInfo == [error |-> FALSE, name |-> "", flags |-> << >>,
               output_paths |-> << >>, input_paths |-> << >>]

\* A checker whose can_skip was not called.
NoChecker == [care_about |-> NoFingerprint,
              last_result_path |-> [name |-> "", hash |-> << >>]]

\* func.checker once can_skip(ci) has run.
CheckerFor(c) ==
    [care_about |-> care_about(c), last_result_path |-> last_result_path(c)]

InitSkip ==
    /\ now = 0
    /\ files = << >>
    /\ flagfiles = << >>
    /\ cache = << >>
    /\ cacheflags = << >>
    /\ call = NoCall
    /\ info = NoCallInfo
    /\ checker = NoChecker
    /\ body = "not run"
    /\ raised = "none"
    /\ ret = None
    /\ verdict = NoVerdict
    /\ loadfail = FALSE

\* What the wrapped function can do in the call: how it ends and the output
\* paths it writes. One value stands for a call that does not reach it.
BodyChoices(c) ==
    IF c.next = "run"
    THEN (BodyReturns \cup {BodyRaises}) \X (SUBSET SeqToSet(c.ci.output_paths))
    ELSE {<<BodyRaises, {}>>}

\* _skippable(func, **kw)
CallWith(f, kw) ==
    \E c \in {_skippable_check(f, kw, Disk)} :
    \E b \in BodyChoices(c) :
    \E r \in {_skippable_finish(c, b[1], b[2], now)} :
        /\ files' = r.fs.files
        /\ flagfiles' = r.fs.flagfiles
        /\ cache' = r.fs.cache
        /\ cacheflags' = r.fs.cacheflags
        /\ call' = [func |-> f, kw |-> kw]
        /\ info' = c.ci
        /\ checker' = IF c.next \in {"TypeError", "cleaned"}
                      THEN NoChecker ELSE CheckerFor(c.ci)
        /\ body' = r.body
        /\ raised' = r.raised
        /\ ret' = r.ret
        /\ verdict' = c.verdict
        /\ loadfail' = c.loadfail
        /\ UNCHANGED <<now, targets, tdvars, argvars, civars, mtvars, tkvars, ccvars>>

\* One call of a skippable callable.
Call == \E f \in targets : \E kw \in Calls(f) : CallWith(f, kw)

\* The record of the last call is dropped.
Forget ==
    /\ call' = NoCall
    /\ info' = NoCallInfo
    /\ checker' = NoChecker
    /\ body' = "not run"
    /\ raised' = "none"
    /\ ret' = None
    /\ verdict' = NoVerdict
    /\ loadfail' = FALSE

\* Somebody writes a user file.
Touch ==
    \E f \in targets : \E p \in PathsOf(f) :
        /\ files' = Put(files, p, now)
        /\ Forget
        /\ UNCHANGED <<now, flagfiles, cache, cacheflags, targets, tdvars, argvars, civars, mtvars, tkvars, ccvars>>

\* Somebody deletes a user file.
Remove ==
    \E p \in DOMAIN files :
        /\ files' = Without(files, {p})
        /\ Forget
        /\ UNCHANGED <<now, flagfiles, cache, cacheflags, targets, tdvars, argvars, civars, mtvars, tkvars, ccvars>>

\* Time passes.
Tick ==
    /\ now < MaxClock
    /\ now' = now + 1
    /\ UNCHANGED <<files, flagfiles, cache, cacheflags, targets, call, info,
                   checker, body, raised, ret, verdict, loadfail, tdvars, argvars, civars, mtvars, tkvars, ccvars>>

----------------------------------------------------------------------------
(* magictask *)

NoMagic == magic = [func |-> "", kwargs |-> << >>]

\* The keyword arguments magictask is given: none, or skippable.
MagicOptions == {<< >>, [skippable |-> PyTrue], [skippable |-> PyFalse]}

\* A magictask that wraps as its docstring says: task, get_params_from_ctx
\* and skippable, whatever it is given.
magictask_as_documented(kwargs) ==
    <<"task", "get_params_from_ctx", "skippable">>

\* magictask: the decorators it puts around the function, outermost first.
\* _skippable = kwargs.pop("skippable", False).
magictask(kwargs) ==
    IF "skippable" \in DOMAIN kwargs /\ Truthy(kwargs["skippable"])
    THEN <<"task", "get_params_from_ctx", "skippable">>
    ELSE <<"task", "get_params_from_ctx">>

\* The keyword arguments get_params_from_ctx passes on to what it wraps,
\* func(**args_passing): ctx, and for each other parameter of the signature
\* a value that was passed or found in ctx, or none if it has a default.
\* _clean and _force_run are in the signature only if skippable put them there.
ArgsPassing(f, wrappers) ==
    IF "skippable" \in SeqToSet(wrappers) THEN Calls(f)
    ELSE {kw \in Calls(f) : "_clean" \notin DOMAIN kw /\ "_force_run" \notin DOMAIN kw}

\* func(**kw), the function itself: it writes some of its outputs and
\* returns or raises; nothing is checked and nothing recorded.
CallDirectly(f, kw) ==
    \E does \in BodyReturns \cup {BodyRaises} : \E writes \in SUBSET {"o1"} :
        /\ files' = RunBody(NoCallInfo, Disk, writes, now).files
        /\ call' = [func |-> f, kw |-> kw]
        /\ info' = NoCallInfo
        /\ checker' = NoChecker
        /\ body' = does
        /\ raised' = IF does = BodyRaises THEN "BodyError" ELSE "none"
        /\ ret' = IF does = BodyRaises THEN None ELSE does
        /\ verdict' = NoVerdict
        /\ loadfail' = FALSE
        /\ UNCHANGED <<now, flagfiles, cache, cacheflags, targets, tdvars, argvars,
                       civars, mtvars, tkvars, ccvars>>

\* One call of the task magictask made.
MagicCall ==
    \E kw \in ArgsPassing(magic.func, magictask(magic.kwargs)) :
        IF "skippable" \in SeqToSet(magictask(magic.kwargs))
        THEN CallWith(magic.func, kw)
        ELSE CallDirectly(magic.func, kw)

----------------------------------------------------------------------------
(* Task.__call__ (invoke/tasks.py), called with a Context *)

\* The longest list of pre tasks, of skip_ifs and of post tasks.
MaxTasks == 2

\* The tasks a call is made on. pre and post count the tasks of the lists;
\* skip_ifs holds what each check task returns.
Tasks ==
    [pre : 0..MaxTasks,
     skip_ifs : UNION {[1..n -> {PyTrue, PyFalse}] : n \in 0..MaxTasks},
     post : 0..MaxTasks,
     body : {"returns", "raises"},
     called_by_executor : BOOLEAN]

NoTask ==
    /\ task = [pre |-> 0, skip_ifs |-> << >>, post |-> 0, body |-> "returns",
               called_by_executor |-> FALSE]
    /\ pc = "no task"
    /\ idx = 0
    /\ run = FALSE
    /\ events = << >>
    /\ outcome = "none"

\* A task about to be called.
InitTask ==
    /\ task \in Tasks
    /\ pc = "__call__"
    /\ idx = 0
    /\ run = FALSE
    /\ events = << >>
    /\ outcome = "none"

\* before_call: where it goes once the pre tasks before i are called, and
\* once the skip_ifs before i returned falsy.
AfterPre(t, i) ==
    IF i <= t.pre THEN <<"pre", i>>
    ELSE IF t.skip_ifs # << >> THEN <<"skip_ifs", 1>>
    ELSE <<"body", 0>>

AfterSkipIf(t, i) ==
    IF i <= Len(t.skip_ifs) THEN <<"skip_ifs", i>> ELSE <<"body", 0>>

\* after_call: where it goes once the post tasks before i are called.
AfterPost(t, i) ==
    IF ~t.called_by_executor /\ i <= t.post THEN <<"post", i>>
    ELSE <<"return", 0>>

\* Task.__call__ up to before_call, which returns True at once when the
\* executor calls.
Enter ==
    /\ pc = "__call__"
    /\ LET to == IF task.called_by_executor THEN <<"body", 0>>
                 ELSE AfterPre(task, 1)
       IN  pc' = to[1] /\ idx' = to[2]
    /\ run' = TRUE
    /\ UNCHANGED <<task, events, outcome, skipvars, tdvars, argvars, civars, mtvars, ccvars>>

\* before_call: for task in self.pre: call_task(task)
CallPre ==
    /\ pc = "pre"
    /\ events' = Append(events, <<"pre", idx>>)
    /\ LET to == AfterPre(task, idx + 1) IN pc' = to[1] /\ idx' = to[2]
    /\ UNCHANGED <<task, run, outcome, skipvars, tdvars, argvars, civars, mtvars, ccvars>>

\* before_call: skip = call_task(check_task); if skip: break. It returns
\* not skipped_because.
CallSkipIf ==
    /\ pc = "skip_ifs"
    /\ events' = Append(events, <<"skip_if", idx>>)
    /\ IF Truthy(task.skip_ifs[idx])
       THEN pc' = "body" /\ idx' = 0 /\ run' = FALSE
       ELSE LET to == AfterSkipIf(task, idx + 1)
            IN  pc' = to[1] /\ idx' = to[2] /\ run' = run
    /\ UNCHANGED <<task, outcome, skipvars, tdvars, argvars, civars, mtvars, ccvars>>

\* Task.__call__: if run: result = self.body(*args, **kwargs), an exception
\* of which is logged and raised again; then times_called += 1 and after_call.
CallBody ==
    /\ pc = "body"
    /\ IF run /\ task.body = "raises"
       THEN /\ events' = Append(events, <<"body", 0>>)
            /\ pc' = "done"
            /\ idx' = 0
            /\ outcome' = "BodyError"
       ELSE /\ events' = (IF run THEN Append(events, <<"body", 0>>) ELSE events)
            /\ LET to == AfterPost(task, 1) IN pc' = to[1] /\ idx' = to[2]
            /\ outcome' = outcome
    /\ UNCHANGED <<task, run, skipvars, tdvars, argvars, civars, mtvars, ccvars>>

\* after_call: for task in self.post: task(ctx)
CallPost ==
    /\ pc = "post"
    /\ events' = Append(events, <<"post", idx>>)
    /\ LET to == AfterPost(task, idx + 1) IN pc' = to[1] /\ idx' = to[2]
    /\ UNCHANGED <<task, run, outcome, skipvars, tdvars, argvars, civars, mtvars, ccvars>>

\* Task.__call__: return result. The name result is bound only if the body
\* was called.
Return ==
    /\ pc = "return"
    /\ pc' = "done"
    /\ outcome' = (IF run THEN "returned" ELSE "UnboundLocalError")
    /\ UNCHANGED <<task, idx, run, events, skipvars, tdvars, argvars, civars, mtvars, ccvars>>

----------------------------------------------------------------------------
(* Two invocations of build that run at the same time, each in a process of *)
(* its own, on the same input and output path and with no lock              *)

Procs == {1, 2}

\* build(src, o1) and build(src, o1, flag=False)
RacingCalls == {kw \in Calls("build") : force_run(kw) = FALSE /\ clean_requested(kw) = FALSE}

NoRace ==
    /\ invocations = << >>
    /\ made = << >>

\* The input file is there, older than anything the invocations write.
InitRace ==
    /\ now = MaxClock
    /\ files = [p \in {"src"} |-> 0]
    /\ flagfiles = << >>
    /\ cache = << >>
    /\ cacheflags = << >>
    /\ targets = {"build"}
    /\ call = NoCall
    /\ info = NoCallInfo
    /\ checker = NoChecker
    /\ body = "not run"
    /\ raised = "none"
    /\ ret = None
    /\ verdict = NoVerdict
    /\ loadfail = FALSE
    /\ invocations \in [Procs -> [kw : RacingCalls, at : {"check"}]]
    /\ made = << >>

\* The value build returns.
BuildResult == "r1"

\* The invocation moves on.
Goes(p, to) == invocations' = [invocations EXCEPT ![p].at = to]

\* _skippable up to the decision: bind, can_skip, _timestamp_differ, and the
\* load of the cached value if the result is skippable.
Check(p) ==
    /\ invocations[p].at = "check"
    /\ LET ci == bind("build", decorate("build", invocations[p].kw))
       IN  IF Verdict(ci, Disk).result.skippable /\ ~LoadFails(ci, Disk)
           THEN Goes(p, "returned cached")
           ELSE Goes(p, "func")
    /\ UNCHANGED <<made, skipvars, tdvars, argvars, civars, mtvars, tkvars>>

\* _skippable: ci.result = func(*args, **kwargs). build writes its output.
RunFunc(p) ==
    /\ invocations[p].at = "func"
    /\ LET ci == bind("build", decorate("build", invocations[p].kw))
       IN  /\ files' = RunBody(ci, Disk, SeqToSet(ci.output_paths), now).files
           /\ made' = [o \in DOMAIN made \cup SeqToSet(ci.output_paths) |->
                          IF o \in SeqToSet(ci.output_paths) THEN care_about(ci)
                          ELSE made[o]]
    /\ Goes(p, "after_run")
    /\ UNCHANGED <<now, flagfiles, cache, cacheflags, targets, call, info, checker,
                   body, raised, ret, verdict, loadfail, tdvars, argvars, civars,
                   mtvars, tkvars>>

\* after_run: the marker of every output path and of the cache file.
WriteMarkers(p) ==
    /\ invocations[p].at = "after_run"
    /\ LET fs == WriteFlags(bind("build", decorate("build", invocations[p].kw)), Disk)
       IN  flagfiles' = fs.flagfiles /\ cacheflags' = fs.cacheflags
    /\ Goes(p, "pickle.dump")
    /\ UNCHANGED <<made, now, files, cache, targets, call, info, checker, body,
                   raised, ret, verdict, loadfail, tdvars, argvars, civars, mtvars,
                   tkvars>>

\* after_run: pickle.dump(ci.result, self.last_result_path.open("wb"))
WriteCache(p) ==
    /\ invocations[p].at = "pickle.dump"
    /\ cache' = after_run(bind("build", decorate("build", invocations[p].kw)), Disk, BuildResult, now).cache
    /\ Goes(p, "returned")
    /\ UNCHANGED <<made, now, files, flagfiles, cacheflags, targets, call, info,
                   checker, body, raised, ret, verdict, loadfail, tdvars, argvars,
                   civars, mtvars, tkvars>>

\* Both invocations have returned.
BothReturned ==
    \A p \in Procs : invocations[p].at \in {"returned", "returned cached"}

\* A call of build once both invocations have returned.
CallAfterwards ==
    /\ BothReturned
    /\ call = NoCall
    /\ \E kw \in RacingCalls : CallWith("build", kw)

----------------------------------------------------------------------------
(* timestamp_differ on its own *)

\* Longest list of paths timestamp_differ is given.
MaxPaths == 2

UserPaths == {"src", "o1", "o2"}

PathLists == UNION {[1..n -> UserPaths] : n \in 0..MaxPaths}

NotAsked == SkipResult(FALSE, "not asked", "")

\* The functions of this model are not asked through timestamp_differ alone.
NoDiffer ==
    /\ td_in = << >>
    /\ td_out = << >>
    /\ td_result = NotAsked

\* Some files, and two lists of paths to ask about.
InitDiffer ==
    /\ td_in \in PathLists
    /\ td_out \in PathLists
    /\ td_result = NotAsked
    /\ \E D \in SUBSET UserPaths : files \in [D -> 0..MaxClock]

StatAll(paths) == [i \in DOMAIN paths |-> StatPath(Disk, paths[i])]

\* timestamp_differ(input_filenames, output_filenames) on the files as they are.
Differ ==
    /\ td_result' = timestamp_differ(StatAll(td_in), StatAll(td_out))
    /\ UNCHANGED <<td_in, td_out, skipvars, argvars, civars, mtvars, tkvars, ccvars>>

----------------------------------------------------------------------------
(* FileFlagChecker.can_skip on its own *)

\* The calls can_skip is asked about: build with either value of its flag,
\* and gen, which has no flag.
CheckedCalls ==
    {[func |-> "build", kw |-> kw] :
        kw \in {k \in Calls("build") : "_clean" \notin DOMAIN k /\ "_force_run" \notin DOMAIN k}}
      \cup {[func |-> "gen", kw |-> [output_path |-> "o1"]]}

CheckedInfos == {bind(c.func, decorate(c.func, c.kw)) : c \in CheckedCalls}

\* The fingerprints a marker can hold, and the cache files there can be.
Markers == {care_about(ci) : ci \in CheckedInfos}
CacheKeys == {last_result_path(ci) : ci \in CheckedInfos}

\* A call and the files some earlier calls, of this and of other callables,
\* have left: output files, the marker of o1, cache files and their markers.
InitCanSkip ==
    /\ \E c \in CheckedCalls : call = c /\ info = bind(c.func, decorate(c.func, c.kw))
    /\ \E D \in SUBSET {"src", "o1"} : files \in [D -> 0..MaxClock]
    /\ \E D \in SUBSET {"o1"} : flagfiles \in [D -> Markers]
    /\ \E D \in SUBSET CacheKeys :
           cache \in [D -> {[data |-> Pickle("r1"), mtime |-> MaxClock]}]
    /\ \E D \in SUBSET CacheKeys : cacheflags \in [D -> Markers]
    /\ checker = NoChecker
    /\ verdict = NoVerdict

\* func.checker.can_skip(ci) on the files as they are.
CanSkip ==
    /\ checker' = CheckerFor(info)
    /\ verdict' = [NoVerdict EXCEPT !.check = can_skip(info, Disk)]
    /\ UNCHANGED <<now, files, flagfiles, cache, cacheflags, targets, call, info,
                   body, raised, ret, loadfail, tdvars, argvars, civars, mtvars, tkvars, ccvars>>

----------------------------------------------------------------------------
(* CallInfo.__init__ on its own *)

\* Most parameters of a function given to CallInfo.
MaxParams == 2

\* The parameters a function can have: a name, and InputPath, OutputPath or
\* nothing as annotation.
ParamNames == {"ctx", "input_path", "output_path", "output_file", "path", "flag",
               "_output_dir"}
ParamPool == [name : ParamNames, annotation : {Empty, InputPath, OutputPath}]

\* The signatures of up to MaxParams parameters, no name twice.
WrappedSignatures ==
    UNION {{ps \in [1..n -> ParamPool] :
               \A i, j \in 1..n : i # j => ps[i].name # ps[j].name} :
           n \in 1..MaxParams}

NotClassified == [output_params |-> <<"?">>, input_params |-> <<"?">>,
                  params_modify_behavior |-> <<"?">>]

\* The functions of this model are classified where they are called.
NoClassModel ==
    /\ wrapped = << >>
    /\ classes = NotClassified

\* A function about to be given to CallInfo.
InitClass ==
    /\ wrapped \in WrappedSignatures
    /\ classes = NotClassified

\* CallInfo(func)
Classify ==
    /\ classes' = [output_params |-> OutputParams(wrapped),
                   input_params |-> InputParams(wrapped),
                   params_modify_behavior |-> ParamsModifyBehavior(wrapped)]
    /\ UNCHANGED <<wrapped, skipvars, tdvars, argvars, mtvars, tkvars, ccvars>>

----------------------------------------------------------------------------
(* get_params_from_ctx *)

\* The values a parameter is given; None is the falsy one.
Values == {None, "1"}

\* signature(func).parameters of the decorated function, ctx first.
Params == <<"ctx", "x", "y">>

\* What a parameter declares as its default: param.empty, a plain value, or a
\* callable that is called with ctx.
DefaultKinds == {"empty", "plain", "callable"}
PlainDefault == "declared"

\* customized_default_decorator: the sentinel of a source that has no value.
fell_through == "<fell_through>"

\* An exception raised by user code (derive_kwargs, a callable default).
Raises == "<raises>"

\* A lookup that takes a falsy value for no value.
GetTruthy(d, param_name) ==
    IF param_name \in DOMAIN d /\ Truthy(d[param_name]) THEN d[param_name]
    ELSE fell_through

\* dict.get(param_name, fell_through), dict.pop(param_name, fell_through)
Get(d, param_name) == IF param_name \in DOMAIN d THEN d[param_name] ELSE fell_through

\* Dictionaries with some keys of S and values of V.
Dicts(S, V) == UNION {[D -> V] : D \in SUBSET S}

\* A get_directly_passed that binds the positional arguments only.
get_positionally_passed(args, kwargs) ==
    [error |-> "none",
     arguments |-> [p \in {Params[i] : i \in DOMAIN args \cap DOMAIN Params} |->
                       args[CHOOSE i \in DOMAIN args : Params[i] = p]]]

\* get_directly_passed: sig.bind_partial(*args, **kwargs) and its TypeErrors.
get_directly_passed(args, kwargs) ==
    LET positional == {Params[i] : i \in DOMAIN args \cap DOMAIN Params}
    IN  IF \/ Len(args) > Len(Params)
           \/ DOMAIN kwargs \cap positional # {}
           \/ ~(DOMAIN kwargs \subseteq SeqToSet(Params))
        THEN [error |-> "TypeError", arguments |-> << >>]
        ELSE [error |-> "none",
              arguments |-> [p \in positional \cup DOMAIN kwargs |->
                                IF p \in positional
                                THEN args[CHOOSE i \in DOMAIN args : Params[i] = p]
                                ELSE kwargs[p]]]

\* customized_default_decorator: ctx = args[0] if args else None
CtxOf(args) == IF args = << >> THEN None ELSE args[1]

\* A traversal that passes over a missing key whoever gave the path.
traverse_path_ignoring_errors(g) ==
    IF Truthy(CtxOf(g.args)) /\ g.found
    THEN [raised |-> FALSE, dict |-> g.cfg]
    ELSE [raised |-> FALSE, dict |-> << >>]

\* traverse_path_for_argdict: the dict at func.ctx_path, {} when there is no
\* ctx or the default path leads nowhere, a DerivingArgsError when a path the
\* user gave cannot be followed.
traverse_path_for_argdict(g) ==
    LET ctx == CtxOf(g.args)
        empty == [raised |-> FALSE, dict |-> << >>]
        error == [raised |-> TRUE, dict |-> << >>]
    IN  IF ~g.user_passed_path /\ ~Truthy(ctx) THEN empty
        ELSE IF g.user_passed_path /\ ~Truthy(ctx) THEN error
        ELSE IF ~g.found THEN (IF g.user_passed_path THEN error ELSE empty)
        ELSE [raised |-> FALSE, dict |-> g.cfg]

\* get_from_ctx
get_from_ctx(g, param_name) ==
    LET ctx_argdict == traverse_path_for_argdict(g)
    IN  IF ctx_argdict.raised THEN Raises ELSE Get(ctx_argdict.dict, param_name)

\* call_derive_kwargs_or_error, and whether it called derive_kwargs: it does
\* whenever cache['derived'] is still empty.
call_derive_kwargs_or_error(g, filled, param_name) ==
    IF g.derive = "none" THEN [value |-> fell_through, called |-> FALSE]
    ELSE IF g.derive = Raises THEN [value |-> Raises, called |-> TRUE]
    ELSE [value |-> Get(g.derived, param_name), called |-> ~filled]

\* A call of the callable default that passes over its exception.
call_callable_default_quietly(s, g, param_name) ==
    IF s[param_name] = "callable" /\ g.dyn[param_name] # Raises
    THEN g.dyn[param_name] ELSE fell_through

\* call_callable_default
call_callable_default(s, g, param_name) ==
    IF s[param_name] = "callable" THEN g.dyn[param_name] ELSE fell_through

\* customized_default_decorator before its loop: nothing passed on yet.
NoArgs(directly_passed) ==
    [error |-> directly_passed.error, args_passing |-> << >>, filled |-> FALSE,
     derive_calls |-> 0, defaults_called |-> {}]

\* customized_default_decorator, one round of its loop: the possibilities in
\* their order, up to the first that does not fall through. An exception in
\* one of them ends the call with a DerivingArgsError.
Possibilities(s, g, directly_passed, st, param_name) ==
    LET direct == Get(directly_passed.arguments, param_name)
        from_ctx == get_from_ctx(g, param_name)
        derived == call_derive_kwargs_or_error(g, st.filled, param_name)
        default == call_callable_default(s, g, param_name)
        counted == [st EXCEPT
                      !.derive_calls = @ + (IF derived.called THEN 1 ELSE 0),
                      !.filled = @ \/ (g.derive = "dict" /\ g.derived # << >>)]
        called == [counted EXCEPT !.defaults_called = @ \cup {param_name}]
        passing(state, v) == [state EXCEPT !.args_passing = Put(@, param_name, v)]
        failing(state) == [state EXCEPT !.error = "DerivingArgsError"]
    IN  IF direct # fell_through THEN passing(st, direct)
        ELSE IF from_ctx = Raises THEN failing(st)
        ELSE IF from_ctx # fell_through THEN passing(st, from_ctx)
        ELSE IF derived.value = Raises THEN failing(counted)
        ELSE IF derived.value # fell_through THEN passing(counted, derived.value)
        ELSE IF default = fell_through THEN counted
        ELSE IF default = Raises THEN failing(called)
        ELSE passing(called, default)

\* customized_default_decorator: its loop over the first n parameters.
RECURSIVE Cascade(_, _, _, _)
Cascade(s, g, directly_passed, n) ==
    IF n = 0 THEN NoArgs(directly_passed)
    ELSE LET st == Cascade(s, g, directly_passed, n - 1)
         IN  IF st.error # "none" THEN st
             ELSE Possibilities(s, g, directly_passed, st, Params[n])

\* A list of the missing parameters that leaves the context parameter out.
MissingButCtx(s, args_passing) ==
    SelectSeq(Params, LAMBDA p :
        p \notin DOMAIN args_passing /\ s[p] = "empty" /\ p \notin {"ctx", "c"})

\* customized_default_decorator: missing
Missing(s, args_passing) ==
    SelectSeq(Params, LAMBDA p : p \notin DOMAIN args_passing /\ s[p] = "empty")

\* customized_default_decorator, all of it: the error it raises if any, the
\* names its TypeError lists, and the arguments func receives, declared plain
\* defaults included.
customized_default_decorator(s, g) ==
    LET st == Cascade(s, g, get_directly_passed(g.args, g.kwargs), Len(Params))
        missing == Missing(s, st.args_passing)
        out == [error |-> st.error, missing |-> << >>, received |-> << >>,
                derive_calls |-> st.derive_calls,
                defaults_called |-> st.defaults_called]
    IN  IF st.error # "none" THEN out
        ELSE IF missing # << >>
        THEN [out EXCEPT !.error = "TypeError", !.missing = missing]
        ELSE [out EXCEPT !.received =
                 [p \in SeqToSet(Params) |->
                     IF p \in DOMAIN st.args_passing THEN st.args_passing[p]
                     ELSE PlainDefault]]

\* The calls of a decorated function: ctx passed or not, x passed by position
\* or by keyword, and what ctx holds for it.
ArgLists == {<< >>, <<"ctx">>} \cup {<<"ctx", v>> : v \in Values}

Configs == {[found |-> FALSE, cfg |-> << >>]}
               \cup {[found |-> TRUE, cfg |-> d] : d \in Dicts({"x", "y"}, Values)}

Derivers == {[derive |-> "none", derived |-> << >>],
             [derive |-> Raises, derived |-> << >>]}
               \cup {[derive |-> "dict", derived |-> d] : d \in Dicts({"x", "y"}, Values)}

\* What the callable defaults of s return, or that they raise, when called.
DefaultResults(s) ==
    {d \in [{"x", "y"} -> Values \cup {Raises}] :
        \A p \in {"x", "y"} : s[p] # "callable" => d[p] = None}

Signatures == {s \in [SeqToSet(Params) -> DefaultKinds] : s["ctx"] = "empty"}

\* The calls of a function whose signature is s.
Givens(s) ==
    {[args |-> args, kwargs |-> kwargs, user_passed_path |-> user_passed_path,
      found |-> c.found, cfg |-> c.cfg, derive |-> d.derive,
      derived |-> d.derived, dyn |-> dyn] :
        args \in ArgLists, kwargs \in Dicts({"x", "y"}, Values),
        user_passed_path \in BOOLEAN, c \in Configs, d \in Derivers,
        dyn \in DefaultResults(s)}

\* Calls that pass more than the signature takes: a fourth positional
\* argument, or a keyword z the function does not have.
ManyArgLists == ArgLists \cup {<<"ctx", "1", "1">>, <<"ctx", "1", "1", "1">>}

ManyGivens(s) ==
    {[args |-> args, kwargs |-> kwargs, user_passed_path |-> FALSE,
      found |-> TRUE, cfg |-> cfg, derive |-> "none", derived |-> << >>,
      dyn |-> dyn] :
        args \in ManyArgLists, kwargs \in Dicts({"x", "y", "z"}, {"1"}),
        cfg \in Dicts({"x", "y"}, {"1"}), dyn \in DefaultResults(s)}

NotCalled ==
    [args |-> << >>, kwargs |-> << >>, user_passed_path |-> FALSE,
     found |-> FALSE, cfg |-> << >>, derive |-> "none", derived |-> << >>,
     dyn |-> << >>]

NotResolved ==
    [error |-> "not called", missing |-> << >>, received |-> << >>,
     derive_calls |-> 0, defaults_called |-> {}]

\* A decorated function and a call about to be made.
InitArgs ==
    /\ sig \in Signatures
    /\ given \in Givens(sig)
    /\ resolved = NotResolved

\* A decorated function and a call about to be made, calls with too many
\* arguments among them.
InitManyArgs ==
    /\ sig \in Signatures
    /\ given \in Givens(sig) \cup ManyGivens(sig)
    /\ resolved = NotResolved

\* The functions of this model are not get_params_from_ctx functions.
NoArgsModel ==
    /\ sig = [p \in SeqToSet(Params) |-> "empty"]
    /\ given = NotCalled
    /\ resolved = NotResolved

\* The call of the decorated function.
Resolve ==
    /\ resolved' = customized_default_decorator(sig, given)
    /\ UNCHANGED <<sig, given, skipvars, tdvars, civars, mtvars, tkvars, ccvars>>

----------------------------------------------------------------------------
(* The specifications *)

\* The calls of one skippable callable f, from an empty filesystem.
InitFor(f) ==
    /\ InitSkip
    /\ targets = {f}
    /\ NoDiffer
    /\ NoArgsModel
    /\ NoClassModel
    /\ NoMagic
    /\ NoTask
    /\ NoRace

\* build(input_path, output_path, flag=True), among files that come, go and age.
InitBuild == InitFor("build")

NextBuild == Call \/ Touch \/ Remove \/ Tick

SpecBuild == InitBuild /\ [][NextBuild]_vars

\* gen(output_path), the same.
InitGen == InitFor("gen")

NextGen == Call \/ Touch \/ Remove \/ Tick

SpecGen == InitGen /\ [][NextGen]_vars

\* myfunc(output_path), called with paths and with values that are no paths.
InitMy == InitFor("myfunc")

NextMy == Call \/ Touch \/ Remove \/ Tick

SpecMy == InitMy /\ [][NextMy]_vars

\* run(input_path), which reads a file and declares no output.
InitRun == InitFor("run")

NextRun == Call \/ Touch \/ Remove \/ Tick

SpecRun == InitRun /\ [][NextRun]_vars

\* get_output(input_path, output_path, _quiet=False), whose last parameter is
\* marked as not significant to the output.
InitOut == InitFor("get_output")

NextOut == Call \/ Touch \/ Remove \/ Tick

SpecOut == InitOut /\ [][NextOut]_vars

\* link(ctx, objectfiles: [InputPath], executable_path: OutputPath) decorated
\* with magictask, with and without skippable=True.
InitMT ==
    /\ InitSkip
    /\ targets = {"link"}
    /\ NoDiffer
    /\ NoArgsModel
    /\ NoClassModel
    /\ magic \in [func : {"link"}, kwargs : MagicOptions]
    /\ NoTask
    /\ NoRace

NextMT == MagicCall \/ Touch \/ Remove \/ Tick

SpecMT == InitMT /\ [][NextMT]_vars

\* A Task called with a Context.
InitTK ==
    /\ InitSkip
    /\ targets = {}
    /\ NoDiffer
    /\ NoArgsModel
    /\ NoClassModel
    /\ NoMagic
    /\ InitTask
    /\ NoRace

NextTK == Enter \/ CallPre \/ CallSkipIf \/ CallBody \/ CallPost \/ Return

SpecTK == InitTK /\ [][NextTK]_vars

\* Two invocations of build at the same time, and a call after them.
InitRC ==
    /\ InitRace
    /\ NoDiffer
    /\ NoArgsModel
    /\ NoClassModel
    /\ NoMagic
    /\ NoTask

NextRC ==
    \/ \E p \in Procs : Check(p) \/ RunFunc(p) \/ WriteMarkers(p) \/ WriteCache(p)
    \/ CallAfterwards

SpecRC == InitRC /\ [][NextRC]_vars


\* optional_param(opt=1, flag=True): two behavior parameters, each with a
\* default, and no path.
InitOpt == InitFor("optional_param")

NextOpt == Call \/ Tick

SpecOpt == InitOpt /\ [][NextOpt]_vars


\* get_tool_output(input_file, output_file), called with the same names as
\* input and as output; the files are those the function writes.
InitTool == InitFor("get_tool_output")

NextTool == Call \/ Tick

SpecTool == InitTool /\ [][NextTool]_vars


\* build(input_path, output_path, flag=True) and get_output(input_path,
\* output_path, _quiet=False), called with the same output path, their input
\* file older than all they write.
InitShared ==
    /\ now = MaxClock
    /\ files = [p \in {"src"} |-> 0]
    /\ flagfiles = << >>
    /\ cache = << >>
    /\ cacheflags = << >>
    /\ targets = {"build", "get_output"}
    /\ call = NoCall
    /\ info = NoCallInfo
    /\ checker = NoChecker
    /\ body = "not run"
    /\ raised = "none"
    /\ ret = None
    /\ verdict = NoVerdict
    /\ loadfail = FALSE
    /\ NoDiffer
    /\ NoArgsModel
    /\ NoClassModel
    /\ NoMagic
    /\ NoTask
    /\ NoRace

NextShared == Call

SpecShared == InitShared /\ [][NextShared]_vars

\* func(val), which names no file.
InitFunc == InitFor("func")

NextFunc == Call \/ Tick

SpecFunc == InitFunc /\ [][NextFunc]_vars

\* timestamp_differ asked about some files.
InitTD ==
    /\ now = MaxClock
    /\ flagfiles = << >>
    /\ cache = << >>
    /\ cacheflags = << >>
    /\ targets = {}
    /\ call = NoCall
    /\ info = NoCallInfo
    /\ checker = NoChecker
    /\ body = "not run"
    /\ raised = "none"
    /\ ret = None
    /\ verdict = NoVerdict
    /\ loadfail = FALSE
    /\ InitDiffer
    /\ NoArgsModel
    /\ NoClassModel
    /\ NoMagic
    /\ NoTask
    /\ NoRace

NextTD == Differ

SpecTD == InitTD /\ [][NextTD]_vars

\* can_skip asked about a call among some files.
InitCS ==
    /\ now = MaxClock
    /\ targets = {"build", "gen"}
    /\ body = "not run"
    /\ raised = "none"
    /\ ret = None
    /\ loadfail = FALSE
    /\ InitCanSkip
    /\ NoDiffer
    /\ NoArgsModel
    /\ NoClassModel
    /\ NoMagic
    /\ NoTask
    /\ NoRace

NextCS == CanSkip

SpecCS == InitCS /\ [][NextCS]_vars

\* CallInfo given a function.
InitCI ==
    /\ InitSkip
    /\ targets = {}
    /\ NoDiffer
    /\ NoArgsModel
    /\ InitClass
    /\ NoMagic
    /\ NoTask
    /\ NoRace

NextCI == Classify

SpecCI == InitCI /\ [][NextCI]_vars

\* Calls of a get_params_from_ctx function.
InitGP ==
    /\ InitSkip
    /\ targets = {}
    /\ NoDiffer
    /\ InitArgs
    /\ NoClassModel
    /\ NoMagic
    /\ NoTask
    /\ NoRace

NextGP == Resolve

SpecGP == InitGP /\ [][NextGP]_vars

\* Calls of a get_params_from_ctx function, those that pass too much included.
InitGPE ==
    /\ InitSkip
    /\ targets = {}
    /\ NoDiffer
    /\ InitManyArgs
    /\ NoClassModel
    /\ NoMagic
    /\ NoTask
    /\ NoRace

NextGPE == Resolve

SpecGPE == InitGPE /\ [][NextGPE]_vars

----------------------------------------------------------------------------
(* Properties of timestamp_differ, under SpecTD *)

Asked == td_result # NotAsked

AllExist(paths) == \A i \in DOMAIN paths : paths[i] \in DOMAIN files

\* The modification times of the paths of a list, all of which exist.
MTimes(paths) == {files[paths[i]] : i \in DOMAIN paths}

\* C4: when every input and output path exists and both lists are non-empty,
\* timestamp_differ reports skippable exactly when the greatest input
\* modification time is strictly less than the least output modification
\* time, so that equal times are not skippable.
C4_StrictlyOlderInputs ==
    (Asked /\ td_in # << >> /\ td_out # << >> /\ AllExist(td_in \o td_out)) =>
        (td_result.skippable <=>
            \A i \in MTimes(td_in) : \A o \in MTimes(td_out) : i < o)

\* Two inputs of different ages, the younger as old as the output: not skippable.
C4_Witness ==
    /\ Asked
    /\ td_in = <<"o2", "src">>
    /\ td_out = <<"o1">>
    /\ AllExist(td_in \o td_out)
    /\ files["o2"] = files["o1"]
    /\ files["src"] < files["o1"]
    /\ ~td_result.skippable

\* C26: timestamp_differ called with an empty list of output paths reports
\* not skippable for every list of input paths, whether those inputs exist or
\* not; the rule comes before any existence or timestamp check, so the
\* reason it gives is the lack of outputs and never a missing file.
C26_NoOutputsNotSkippable ==
    (Asked /\ td_out = << >>) =>
        /\ ~td_result.skippable
        /\ td_result.reason = <<"has_outputs:False", "">>

\* Asked about an input that does not exist and no output.
C26_Witness ==
    /\ Asked
    /\ td_out = << >>
    /\ td_in = <<"src">>
    /\ "src" \notin DOMAIN files
    /\ ~td_result.skippable

\* C27: timestamp_differ called with a non-empty list of output paths that
\* all exist and an empty list of input paths reports skippable, whatever the
\* modification times of the outputs are: it compares none.
C27_NoInputsSkippable ==
    (Asked /\ td_in = << >> /\ td_out # << >> /\ AllExist(td_out)) =>
        /\ td_result.skippable
        /\ td_result.reason = <<"task's outputs exist, but no inputs required", "">>

\* Asked about two outputs of different ages and no input.
C27_Witness ==
    /\ Asked
    /\ td_in = << >>
    /\ td_out = <<"o1", "o2">>
    /\ AllExist(td_out)
    /\ files["o1"] # files["o2"]
    /\ td_result.skippable

----------------------------------------------------------------------------
(* Properties of _skippable, under SpecBuild, SpecGen and SpecFunc *)

\* The step is a call: the record of a call is there and no time has passed.
CallStep == call' # NoCall /\ now' = now

\* The user paths the recorded call names.
BoundPaths == SeqToSet(info.input_paths) \cup SeqToSet(info.output_paths)

\* The recorded call came to the checks: its arguments bound and it was not
\* a clean without force_run.
Judged == call # NoCall /\ verdict # NoVerdict

\* The recorded call passed _clean=True, and _force_run=True.
AskedClean == "_clean" \in DOMAIN call.kw /\ call.kw["_clean"] = PyTrue
AskedForce == "_force_run" \in DOMAIN call.kw /\ call.kw["_force_run"] = PyTrue

\* The recorded call asked neither for a clean nor for a forced run.
Plain == call # NoCall /\ ~AskedClean /\ ~AskedForce

\* C5: whenever an input path or an output path of a call does not exist, the
\* call is not skippable, whatever the timestamps of its other paths are: the
\* timestamp result and the final result say so and the wrapped function runs.
C5_MissingPathRuns ==
    [][(CallStep /\ Judged' /\ \E p \in BoundPaths' : p \notin DOMAIN files) =>
           (/\ ~verdict'.fs.skippable
            /\ ~verdict'.result.skippable
            /\ body' # "not run")]_vars

\* A call of build whose input is missing while its output is there.
C5_Witness ==
    /\ Judged
    /\ call.func = "build"
    /\ "src" \notin DOMAIN files
    /\ "o1" \in DOMAIN files
    /\ verdict.fs.reason = <<"missing", "src">>
    /\ body \in BodyReturns

\* The recorded call ran the wrapped function, which returned, and the call
\* returned its value.
RealRun == call # NoCall /\ body \in BodyReturns /\ raised = "none"

\* The step is a call with the input paths, output paths and flags of the
\* recorded one, asking neither for a clean nor for a forced run.
SameCallAgain == CallStep /\ call'.func = call.func /\ info' = info /\ Plain'

\* The step leaves the wrapped function alone and returns what the recorded
\* call returned.
SkippedWithSameValue == body' = "not run" /\ raised' = "none" /\ ret' = ret

\* Every path of the recorded call exists, and every input is strictly older
\* than every output and than the cached return value.
InputsOlderThanOutputs ==
    /\ BoundPaths \subseteq DOMAIN files
    /\ \A i \in SeqToSet(info.input_paths) :
          /\ \A o \in SeqToSet(info.output_paths) : files[i] < files[o]
          /\ checker.last_result_path \in DOMAIN cache =>
                 files[i] < cache[checker.last_result_path].mtime

\* C2, as stated: after a real execution, a second call with identical input
\* paths, output paths and flags and no filesystem change in between returns
\* the value of the first and does not invoke the wrapped function.
C2_AsStated ==
    [][(RealRun /\ SameCallAgain) => SkippedWithSameValue]_vars

\* C2, amended: the same, provided every input and output path exists after
\* the first call and every input is strictly older than every output and
\* than the cached return value.
C2_SecondCallSkipped ==
    [][(RealRun /\ SameCallAgain /\ InputsOlderThanOutputs) =>
           SkippedWithSameValue]_vars

\* A call of build that was skipped and returned the cached value.
C2_Witness ==
    /\ Plain
    /\ Judged
    /\ call.func = "build"
    /\ verdict.result.skippable
    /\ body = "not run"
    /\ ret \in BodyReturns

\* The step is a call of the recorded callable with the output paths of the
\* recorded call, other flag values, and it comes to the checks.
OtherFlagsNext ==
    /\ CallStep
    /\ call'.func = call.func
    /\ info.output_paths # << >>
    /\ info'.output_paths = info.output_paths
    /\ info'.input_paths = info.input_paths
    /\ info'.flags # info.flags
    /\ Judged'

\* C3, as stated: of two successive calls with the same output path and
\* different flag values, the first having executed the wrapped function, the
\* second executes it too and is never skipped.
C3_AsStated ==
    [][(call # NoCall /\ body # "not run" /\ OtherFlagsNext) =>
           body' # "not run"]_vars

\* Before the step, the cached return value of the call the step makes is
\* there and loads, and every input of that call exists and is strictly older
\* than it.
CachedBefore ==
    /\ checker'.last_result_path \in DOMAIN cache
    /\ Unpickles(cache[checker'.last_result_path].data)
    /\ \A i \in SeqToSet(info'.input_paths) :
          /\ i \in DOMAIN files
          /\ files[i] < cache[checker'.last_result_path].mtime

\* C6, as stated: a call to a skippable callable that declares zero output
\* parameters is never skipped.
C6_AsStated ==
    (Judged /\ output_params(call.func) = << >>) => body # "not run"

\* C6, amended: a call to a skippable callable that declares zero output
\* parameters, and that does not ask for a clean, is skipped exactly when it
\* is not forced, the cached return value of an earlier identical call is
\* there and loads, and every input exists and is strictly older than it.
C6_SkippedWhenCached ==
    [][(/\ CallStep
        /\ Judged'
        /\ output_params(call'.func) = << >>
        /\ ~AskedClean') =>
           (body' = "not run" <=> (~AskedForce' /\ CachedBefore))]_vars

\* A call of run(input_path) that was skipped.
C6_Witness ==
    /\ Judged
    /\ call.func = "run"
    /\ output_params(call.func) = << >>
    /\ body = "not run"
    /\ ret \in BodyReturns

\* The recorded call asked for a clean without force_run, and its arguments bound.
CleanOnly == call # NoCall /\ ~info.error /\ AskedClean /\ ~AskedForce

\* No cache file of the recorded callable and no marker of one exists.
NoCacheLeft ==
    \A k \in DOMAIN cache \cup DOMAIN cacheflags : k.name # info.name

\* C7, as stated: after a call with clean requested (and no force_run), every
\* output artifact and fingerprint marker recorded for the callable is gone:
\* no marker and no cached return value is left.
C7_AsStated ==
    CleanOnly => (flagfiles = << >> /\ NoCacheLeft)

\* C7, amended: after a call with clean requested and no force_run, the
\* output paths of that call, their markers and every cache file of the
\* callable are gone (markers and outputs recorded under other output paths
\* stay), and the next call of the callable that comes to the checks executes
\* the wrapped function instead of loading a cached value.
C7_CleanedThenRuns ==
    [][/\ (CallStep /\ CleanOnly') =>
              /\ NoCacheLeft'
              /\ \A p \in SeqToSet(info'.output_paths) :
                    p \notin DOMAIN files' /\ p \notin DOMAIN flagfiles'
       /\ (CleanOnly /\ CallStep /\ call'.func = call.func /\ Judged') =>
              body' # "not run"]_vars

\* gen(o2) was cleaned while the marker recorded for o1 is still there.
C7_Witness ==
    /\ CleanOnly
    /\ info.output_paths = <<"o2">>
    /\ "o1" \in DOMAIN flagfiles
    /\ "o1" \in DOMAIN files

\* Nothing was written in the step: no file, marker or cache file is new or
\* has changed.
NothingWritten ==
    /\ \A p \in DOMAIN files' : p \in DOMAIN files /\ files'[p] = files[p]
    /\ \A p \in DOMAIN flagfiles' : p \in DOMAIN flagfiles /\ flagfiles'[p] = flagfiles[p]
    /\ \A k \in DOMAIN cache' : k \in DOMAIN cache /\ cache'[k] = cache[k]
    /\ \A k \in DOMAIN cacheflags' : k \in DOMAIN cacheflags /\ cacheflags'[k] = cacheflags[k]

\* C8: a call with clean requested and force_run not requested returns the
\* clean summary at once: it never invokes the wrapped function, makes no
\* check, and writes no marker and no cache file.
C8_CleanReturnsAtOnce ==
    [][(CallStep /\ CleanOnly') =>
           /\ ret' = "Cleaned all 1 output files!"
           /\ raised' = "none"
           /\ body' = "not run"
           /\ verdict' = NoVerdict
           /\ NothingWritten]_vars

\* gen(o1, _clean=True) has returned the summary, and o2 is still there.
C8_Witness ==
    /\ CleanOnly
    /\ info.output_paths = <<"o1">>
    /\ ret = "Cleaned all 1 output files!"
    /\ "o2" \in DOMAIN files
    /\ "o1" \notin DOMAIN files

\* C9: when the wrapped function returns a value that cannot be pickled, the
\* call raises SaveReturnvalueError and no other error, and it raises it only
\* when the wrapped function has run in that call.
C9_SaveReturnvalueError ==
    /\ body = Unpicklable => raised = "SaveReturnvalueError"
    /\ raised = "SaveReturnvalueError" => (call # NoCall /\ body = Unpicklable)

\* build wrote its output, returned a function, and the call raised.
C9_Witness ==
    /\ call.func = "build"
    /\ body = Unpicklable
    /\ raised = "SaveReturnvalueError"
    /\ "o1" \in DOMAIN files
    /\ files["o1"] = now

\* Before the step, the cache file of the call the step makes is missing or
\* does not unpickle.
NoLoadableCache ==
    checker'.last_result_path \in DOMAIN cache =>
        ~Unpickles(cache[checker'.last_result_path].data)

\* C10: when a call is judged skippable and is not forced, but its cached
\* return value cannot be loaded, no load error comes out of the call: the
\* wrapped function runs, and if it returns a picklable value the call
\* returns that value and the cache file holds it.
C10_LoadFailureRuns ==
    [][(CallStep /\ Judged' /\ verdict'.result.skippable /\ ~AskedForce'
            /\ NoLoadableCache) =>
           /\ loadfail'
           /\ body' # "not run"
           /\ raised' \in {"none", "BodyError", "SaveReturnvalueError"}
           /\ body' \in BodyReturns \ {Unpicklable} =>
                 /\ raised' = "none"
                 /\ ret' = body'
                 /\ checker'.last_result_path \in DOMAIN cache'
                 /\ Unpickles(cache'[checker'.last_result_path].data)
                 /\ Unpickle(cache'[checker'.last_result_path].data) = body']_vars

\* A call of build found a cache file it could not load, ran, and replaced it.
C10_Witness ==
    /\ loadfail
    /\ call.func = "build"
    /\ verdict.result.skippable
    /\ body = "r1"
    /\ ret = "r1"
    /\ Unpickle(cache[checker.last_result_path].data) = "r1"

\* C11: the wrapped function is skipped only when the flag check and the
\* timestamp check both report skippable; when either of them reports not
\* skippable, in a call that is not a clean without force_run, the wrapped
\* function is executed.
C11_BothChecksAgree ==
    [][(CallStep /\ Judged') =>
           /\ body' = "not run" =>
                  (verdict'.check.skippable /\ verdict'.fs.skippable)
           /\ (~verdict'.check.skippable \/ ~verdict'.fs.skippable) =>
                  (body' # "not run" /\ ~verdict'.result.skippable)]_vars

\* A call of build whose files pass the timestamp check while the marker of
\* its output records other flags: the wrapped function ran.
C11_Witness ==
    /\ Judged
    /\ call.func = "build"
    /\ ~verdict.check.skippable
    /\ verdict.fs.skippable
    /\ body \in BodyReturns

\* The parameters of the recorded callable whose names start with an
\* underscore, the two that _skippable takes for itself left out.
UnderscoreParams ==
    {p \in SeqToSet(Sigs[call.func]) : StartsWithUnderscore(p)} \ {"_clean", "_force_run"}

\* The step is a call of the recorded callable that differs from the recorded
\* call in the values of underscore parameters only.
UnderscoresDifferNext ==
    /\ call # NoCall
    /\ CallStep
    /\ call'.func = call.func
    /\ call'.kw # call.kw
    /\ \A p \in SeqToSet(Sigs[call.func]) \ UnderscoreParams :
           BoundValue(call'.kw, p) = BoundValue(call.kw, p)

\* C17, as stated: two calls that differ only in the values of underscore
\* parameters get the same verdict and the same cached result, so that the
\* second, if it asks for neither clean nor force_run, is skipped after the
\* first ran.
C17_AsStated ==
    [][(RealRun /\ UnderscoresDifferNext /\ Plain') => SkippedWithSameValue]_vars

\* C17, amended: the value of an underscore parameter is no part of the
\* flags nor of the cache key: a call that differs from the one before it in
\* such values only has the same paths, flags, fingerprint and cache file;
\* asking for neither clean nor force_run, it is skipped with the same value
\* if the one before it was skipped, and if the one before it ran and
\* returned, every path exists and every input is strictly older than every
\* output and than the cached return value.
C17_UnderscoreIgnored ==
    [][UnderscoresDifferNext =>
           /\ info' = info
           /\ checker' = checker
           /\ (Plain /\ Judged /\ body = "not run") =>
                  (verdict' = verdict /\ SkippedWithSameValue)
           /\ (RealRun /\ Plain' /\ InputsOlderThanOutputs) =>
                  SkippedWithSameValue]_vars

\* get_output(src, o1, _quiet=True) was skipped and returned a cached value.
C17_Witness ==
    /\ Plain
    /\ Judged
    /\ call.func = "get_output"
    /\ "_quiet" \in DOMAIN call.kw
    /\ call.kw["_quiet"] = PyTrue
    /\ body = "not run"
    /\ ret \in BodyReturns

\* After the step the marker of every output path of the call and the marker
\* of its cache file hold the fingerprint of the call, and the cache file,
\* written in the step, holds the value the wrapped function returned.
PersistedNext ==
    /\ \A o \in SeqToSet(info'.output_paths) :
           o \in DOMAIN flagfiles' /\ flagfiles'[o] = checker'.care_about
    /\ checker'.last_result_path \in DOMAIN cacheflags'
    /\ cacheflags'[checker'.last_result_path] = checker'.care_about
    /\ checker'.last_result_path \in DOMAIN cache'
    /\ cache'[checker'.last_result_path] = [data |-> Pickle(body'), mtime |-> now]

\* C18: with force_run set, the wrapped function is executed even when the
\* flag check and the timestamp check both report skippable, and when it
\* returns its markers and its return value are persisted as after any
\* real run.
C18_ForcedRun ==
    [][(CallStep /\ ~info'.error /\ AskedForce') =>
           /\ body' # "not run"
           /\ body' \in BodyReturns \ {Unpicklable} =>
                  (raised' = "none" /\ ret' = body' /\ PersistedNext)]_vars

\* A forced call of build that both checks found skippable: it ran, and the
\* cache file now holds the new return value.
C18_Witness ==
    /\ AskedForce
    /\ ~AskedClean
    /\ call.func = "build"
    /\ verdict.check.skippable
    /\ verdict.fs.skippable
    /\ body = "r2"
    /\ ret = "r2"
    /\ Unpickle(cache[checker.last_result_path].data) = "r2"

\* The step is a call that names no file, comes to the checks and asks for no
\* clean.
NoPathCallNext ==
    /\ CallStep
    /\ Judged'
    /\ info'.output_paths = << >>
    /\ info'.input_paths = << >>
    /\ ~AskedClean'

\* The cache files and markers of other flag values stay as they are.
OtherCachesKept ==
    /\ \A k \in DOMAIN cache \ {checker'.last_result_path} :
           k \in DOMAIN cache' /\ cache'[k] = cache[k]
    /\ \A k \in DOMAIN cacheflags \ {checker'.last_result_path} :
           k \in DOMAIN cacheflags' /\ cacheflags'[k] = cacheflags[k]

\* C20: for a skippable function with no declared output paths, cached
\* results for different flag values coexist. A call that executes the
\* function and gets a value it can pickle caches it under its own flags and
\* leaves the cached values of other flags alone; a call whose flags have a
\* cached value, not forced, is skipped, returns that value and changes no
\* cache file. So after an execution with flags A and one with flags B,
\* calls with A or with B, in any order, are all skipped and return the value
\* cached for their own flags.
C20_CachesCoexist ==
    [][NoPathCallNext =>
           /\ OtherCachesKept
           /\ (CachedBefore /\ ~AskedForce') =>
                  /\ body' = "not run"
                  /\ raised' = "none"
                  /\ ret' = Unpickle(cache[checker'.last_result_path].data)
                  /\ cache' = cache
                  /\ cacheflags' = cacheflags
           /\ body' \in BodyReturns \ {Unpicklable} =>
                  /\ raised' = "none"
                  /\ checker'.last_result_path \in DOMAIN cache'
                  /\ Unpickles(cache'[checker'.last_result_path].data)
                  /\ Unpickle(cache'[checker'.last_result_path].data) = body']_vars

\* func was executed with val=True and with val=False and returned different
\* values; both are cached, and the recorded call, with val=True, was skipped
\* and returned the value of val=True.
C20_Witness ==
    /\ call.func = "func"
    /\ Plain
    /\ call.kw["val"] = PyTrue
    /\ body = "not run"
    /\ \E k \in DOMAIN cache \ {checker.last_result_path} :
           /\ Unpickles(cache[k].data)
           /\ Unpickle(cache[k].data) # ret
    /\ checker.last_result_path \in DOMAIN cache
    /\ ret = Unpickle(cache[checker.last_result_path].data)

\* C28: the verdict and reason the orchestrator acts on are those of the
\* first check that reports not skippable, the flag check being consulted
\* before the timestamp check; when neither fails they are the timestamp
\* check's. The wrapped function runs when that verdict is not skippable, and
\* is left alone only when it is skippable.
C28_FirstFailingCheck ==
    Judged =>
        /\ verdict.result = (IF ~verdict.check.skippable THEN verdict.check
                             ELSE verdict.fs)
        /\ ~verdict.result.skippable => body # "not run"
        /\ body = "not run" => verdict.result.skippable

\* A call of build that both checks refuse, for different reasons: the
\* verdict is the flag check's.
C28_Witness ==
    /\ Judged
    /\ call.func = "build"
    /\ ~verdict.check.skippable
    /\ ~verdict.fs.skippable
    /\ verdict.check.reason # verdict.fs.reason
    /\ verdict.result = verdict.check
    /\ body # "not run"

\* After the step every output path of the call and its cache file have a
\* marker that holds the fingerprint of the call.
MarkersNext ==
    /\ \A o \in SeqToSet(info'.output_paths) :
           o \in DOMAIN flagfiles' /\ flagfiles'[o] = care_about(info')
    /\ last_result_path(info') \in DOMAIN cacheflags'
    /\ cacheflags'[last_result_path(info')] = care_about(info')

\* C29: after a real execution that returns normally with a picklable value,
\* every output path of the call has a marker file holding the current
\* fingerprint and the cache artifact holds the returned value, which the
\* call returns. The markers are written before the return value is
\* pickled: when the value cannot be pickled the markers are there all the
\* same, beside a cache file that was opened and left empty.
C29_PersistedAfterRun ==
    [][(CallStep /\ body' \in BodyReturns) =>
           /\ MarkersNext
           /\ last_result_path(info') \in DOMAIN cache'
           /\ cache'[last_result_path(info')].mtime = now
           /\ IF body' = Unpicklable
              THEN /\ raised' = "SaveReturnvalueError"
                   /\ cache'[last_result_path(info')].data = Truncated
              ELSE /\ raised' = "none"
                   /\ ret' = body'
                   /\ cache'[last_result_path(info')].data = Pickle(body')]_vars

\* A call of build that was not forced ran and returned r2: the marker of
\* o1 holds its fingerprint and the cache file holds r2.
C29_Witness ==
    /\ Plain
    /\ call.func = "build"
    /\ body = "r2"
    /\ ret = "r2"
    /\ "o1" \in DOMAIN flagfiles
    /\ flagfiles["o1"] = care_about(info)
    /\ cache[last_result_path(info)].data = Pickle("r2")

\* The four outcomes of the recorded call.
ReturnedCleanSummary ==
    /\ CleanOnly
    /\ raised = "none"
    /\ body = "not run"
    /\ verdict = NoVerdict
    /\ ret = CleanSummary(Len(info.output_paths))

ReturnedCached ==
    /\ Judged
    /\ ~AskedForce
    /\ verdict.result.skippable
    /\ raised = "none"
    /\ body = "not run"
    /\ ~loadfail
    /\ last_result_path(info) \in DOMAIN cache
    /\ Unpickles(cache[last_result_path(info)].data)
    /\ ret = Unpickle(cache[last_result_path(info)].data)

ReturnedFresh ==
    /\ Judged
    /\ raised = "none"
    /\ body \in BodyReturns \ {Unpicklable}
    /\ ret = body
    /\ last_result_path(info) \in DOMAIN cache
    /\ cache[last_result_path(info)].data = Pickle(body)

RaisedError ==
    \/ raised = "TypeError" /\ info.error /\ body = "not run"
    \/ raised = "BodyError" /\ Judged /\ body = BodyRaises
    \/ raised = "SaveReturnvalueError" /\ Judged /\ body = Unpicklable

Outcomes == <<ReturnedCleanSummary, ReturnedCached, ReturnedFresh, RaisedError>>

\* C30: every orchestrated call ends in exactly one of these outcomes: the
\* clean summary is returned, a cached value is returned, a fresh value is
\* returned after persisting, or an error is raised. The wrapped function
\* body is invoked at most once per call, never on the clean-only and cached
\* outcomes, and exactly once when a skippable verdict is followed by a
\* failed cache load.
C30_OneOutcome ==
    call # NoCall =>
        /\ Cardinality({i \in 1..4 : Outcomes[i]}) = 1
        /\ body \in {"not run", BodyRaises} \cup BodyReturns
        /\ (CleanOnly \/ ReturnedCleanSummary \/ ReturnedCached) => body = "not run"
        /\ loadfail => (Judged /\ verdict.result.skippable /\ body # "not run")
        /\ (Judged /\ verdict.result.skippable /\ ~AskedForce /\ body # "not run")
               => loadfail

\* A call of build that was judged skippable, could not load the cached
\* value, ran the function, and the function raised.
C30_Witness ==
    /\ call.func = "build"
    /\ loadfail
    /\ verdict.result.skippable
    /\ body = BodyRaises
    /\ raised = "BodyError"

\* The parameters of f that are classified as paths.
PathParams(f) == SeqToSet(output_params(f)) \cup SeqToSet(input_params(f))

\* C21: a path-classified argument whose value cannot be coerced to a path is
\* left out of the staleness check without error when the value is falsy: the
\* call binds, the value is among neither its paths nor the markers, and it
\* is recorded in the flags. When the value is not falsy the call raises
\* TypeError before the wrapped function runs and before any file is touched.
C21_UncoercibleValues ==
    [][CallStep =>
           \A p \in PathParams(call'.func) \cap DOMAIN call'.kw :
               PathRefuses(call'.kw[p]) =>
                   IF Truthy(call'.kw[p])
                   THEN /\ info'.error
                        /\ raised' = "TypeError"
                        /\ body' = "not run"
                        /\ UNCHANGED <<files, flagfiles, cache, cacheflags>>
                   ELSE /\ ~info'.error
                        /\ raised' # "TypeError"
                        /\ call'.kw[p] \notin BoundPaths'
                        /\ call'.kw[p] \notin DOMAIN flagfiles'
                        /\ <<p, ReprOfList(call'.kw[p])>> \in SeqToSet(info'.flags)]_vars

\* myfunc(None) bound, named no path, ran and returned.
C21_Witness ==
    /\ call.func = "myfunc"
    /\ call.kw["output_path"] = None
    /\ ~info.error
    /\ info.output_paths = << >>
    /\ body = "r1"
    /\ raised = "none"

----------------------------------------------------------------------------
(* Claims about magictask, checked under SpecMT *)

\* magictask was given skippable=True.
DeclaredSkippable ==
    "skippable" \in DOMAIN magic.kwargs /\ Truthy(magic.kwargs["skippable"])

\* The step repeats the recorded call, keyword for keyword, asking neither
\* for a clean nor for a forced run.
SameTaskAgain == CallStep /\ call' = call /\ Plain'

\* The object file and the executable of link exist and the executable is
\* the newer.
ExecutableNewer ==
    /\ {"src", "o1"} \subseteq DOMAIN files
    /\ files["src"] < files["o1"]

----------------------------------------------------------------------------
(* Properties of FileFlagChecker.can_skip, under SpecCS *)

\* can_skip was called.
FlagsChecked == checker # NoChecker

\* The output paths can_skip went through, the cache file last.
CheckedOutputs ==
    [i \in DOMAIN info.output_paths |-> StatPath(Disk, info.output_paths[i])]
        \o <<StatCache(Disk, checker.last_result_path)>>

\* Some output path has no marker; some has a marker of another fingerprint;
\* some does not exist.
MarkerAbsent == \E i \in DOMAIN CheckedOutputs : ~CheckedOutputs[i].hasflag
MarkerDiffers ==
    \E i \in DOMAIN CheckedOutputs :
        CheckedOutputs[i].hasflag /\ CheckedOutputs[i].flag # checker.care_about
OutputAbsent == \E i \in DOMAIN CheckedOutputs : ~CheckedOutputs[i].exists

\* C12, as stated: for a call that has at least one behavior flag, the flag
\* check reports not skippable whenever the marker of any output path is
\* absent, and whenever any present marker differs from the current
\* fingerprint.
C12_AsStated ==
    (FlagsChecked /\ info.flags # << >> /\ (MarkerAbsent \/ MarkerDiffers)) =>
        ~verdict.check.skippable

\* C12, amended: for a call that has at least one behavior flag, the flag
\* check reports not skippable exactly when an output path (the cache file
\* of the return value is one) does not exist or a present marker differs
\* from the current fingerprint; the absent marker of an output path that
\* exists is passed over.
C12_PresentMarkerDiffers ==
    (FlagsChecked /\ info.flags # << >>) =>
        (~verdict.check.skippable <=> (OutputAbsent \/ MarkerDiffers))

\* build's output is there without a marker, its cache file has the marker
\* of the call, and the flag check reports skippable.
C12_Witness ==
    /\ FlagsChecked
    /\ call.func = "build"
    /\ info.flags # << >>
    /\ "o1" \in DOMAIN files
    /\ "o1" \notin DOMAIN flagfiles
    /\ ~OutputAbsent
    /\ verdict.check.skippable

----------------------------------------------------------------------------
(* Properties of CallInfo.__init__, under SpecCI *)

Classified == classes # NotClassified

\* Parameter name p of the function is in the list l.
ListedIn(l, p) == p \in SeqToSet(l)

\* C16: classification puts every parameter in at most one of input_params
\* and output_params, and none of these into the behavior parameters; a
\* parameter named output_path is always an output and never an input,
\* whatever its annotation; the context parameter is in neither list.
C16_ClassifiedOnce ==
    Classified =>
        /\ \A p \in SeqToSet(Names(wrapped)) :
              /\ ~(ListedIn(classes.input_params, p) /\ ListedIn(classes.output_params, p))
              /\ (ListedIn(classes.input_params, p) \/ ListedIn(classes.output_params, p))
                     => ~ListedIn(classes.params_modify_behavior, p)
        /\ ListedIn(Names(wrapped), "output_path") =>
              /\ ListedIn(classes.output_params, "output_path")
              /\ ~ListedIn(classes.input_params, "output_path")
        /\ ~ListedIn(classes.input_params \o classes.output_params, "ctx")

\* A function f(ctx, output_path: InputPath): the one output is output_path.
C16_Witness ==
    /\ Classified
    /\ wrapped = <<[name |-> "ctx", annotation |-> Empty],
                   [name |-> "output_path", annotation |-> InputPath]>>
    /\ classes.output_params = <<"output_path">>
    /\ classes.input_params = << >>
    /\ classes.params_modify_behavior = << >>

----------------------------------------------------------------------------
(* Properties of get_params_from_ctx, under SpecGP *)

Called == resolved # NotResolved

\* The four sources of a value for parameter p in the call, in the order of
\* the cascade, each with whether it supplies one: the argument passed by
\* position or by keyword, the dict found at the ctx path, the dict
\* derive_kwargs returned, the callable default.
SourcesOf(p) ==
    LET position == CHOOSE i \in DOMAIN Params : Params[i] = p
        has_ctx == given.args # << >> /\ given.args[1] # None
    IN  << IF position \in DOMAIN given.args
             THEN [supplies |-> TRUE, value |-> given.args[position]]
             ELSE [supplies |-> p \in DOMAIN given.kwargs,
                   value |-> Get(given.kwargs, p)],
           [supplies |-> has_ctx /\ given.found /\ p \in DOMAIN given.cfg,
            value |-> Get(given.cfg, p)],
           [supplies |-> given.derive = "dict" /\ p \in DOMAIN given.derived,
            value |-> Get(given.derived, p)],
           [supplies |-> sig[p] = "callable" /\ Get(given.dyn, p) # Raises,
            value |-> Get(given.dyn, p)] >>

Supplied(p) == {i \in 1..4 : SourcesOf(p)[i].supplies}

\* The first source, in the order of the cascade, that supplies a value for p.
FirstSource(p) == CHOOSE i \in Supplied(p) : \A j \in Supplied(p) : i <= j

\* C1: every parameter takes its value from the first source that supplies
\* one, in the order: directly passed argument, configuration dict at the ctx
\* path, derive_kwargs result, callable default called with ctx. A later
\* source is never used when an earlier one supplies a value: the callable
\* default of such a parameter is not called, and derive_kwargs is not called
\* when arguments and configuration supply every parameter.
C1_FirstSourceWins ==
    Called =>
        /\ \A p \in {"x", "y"} :
              /\ (resolved.error = "none" /\ Supplied(p) # {}) =>
                     resolved.received[p] = SourcesOf(p)[FirstSource(p)].value
              /\ Supplied(p) \cap 1..3 # {} => p \notin resolved.defaults_called
        /\ (\A p \in SeqToSet(Params) : Supplied(p) \cap 1..2 # {}) =>
               resolved.derive_calls = 0

\* x has a callable default, a configured value and a directly passed value
\* that all differ, y comes from derive_kwargs although its default is
\* callable too, and the call went through.
C1_Witness ==
    /\ Called
    /\ resolved.error = "none"
    /\ sig["x"] = "callable"
    /\ Supplied("x") = {1, 2, 4}
    /\ Get(given.kwargs, "x") = "1"
    /\ given.cfg["x"] = None
    /\ resolved.received["x"] = "1"
    /\ Supplied("y") = {3, 4}
    /\ given.derived["y"] # given.dyn["y"]
    /\ resolved.received["y"] = given.derived["y"]

\* The cascade of the call came to its end: the arguments bound and no source
\* raised.
CascadeDone ==
    /\ Called
    /\ get_directly_passed(given.args, given.kwargs).error = "none"
    /\ resolved.error # "DerivingArgsError"

\* p declares no default and no source supplies a value for it.
Unresolved(p) == sig[p] = "empty" /\ Supplied(p) = {}

\* C13, as stated: when after the full cascade a parameter without declared
\* default is unresolved, the call raises the TypeError that lists every
\* missing parameter in declaration order, the context parameter excluded.
C13_AsStated ==
    (CascadeDone /\ \E p \in SeqToSet(Params) : Unresolved(p)) =>
        /\ resolved.error = "TypeError"
        /\ resolved.missing = SelectSeq(<<"x", "y">>, Unresolved)

\* C13, amended: when after the full cascade a parameter without declared
\* default is unresolved, the call raises the TypeError that lists every
\* such parameter in declaration order; the context parameter is listed
\* first when the call did not pass it, and is absent from the list only
\* when it was passed. With every parameter resolved no such error is raised.
C13_MissingListed ==
    CascadeDone =>
        IF \E p \in SeqToSet(Params) : Unresolved(p)
        THEN /\ resolved.error = "TypeError"
             /\ resolved.missing = SelectSeq(Params, Unresolved)
        ELSE resolved.error = "none"

\* f(ctx, x, y) called as f(x=...) without ctx and with nothing to find y in:
\* the error lists ctx and y.
C13_Witness ==
    /\ CascadeDone
    /\ given.args = << >>
    /\ "x" \in DOMAIN given.kwargs
    /\ resolved.error = "TypeError"
    /\ resolved.missing = <<"ctx", "y">>

\* The call passed a context and left x or y to the cascade, so that the
\* configuration is looked up, and a key along the path is missing.
LookupMissesKey ==
    /\ Called
    /\ get_directly_passed(given.args, given.kwargs).error = "none"
    /\ Truthy(CtxOf(given.args))
    /\ \E p \in {"x", "y"} : 1 \notin Supplied(p)
    /\ ~given.found

\* C14: a key missing along the path of the configuration lookup makes the
\* resolution fall through to the next source without error when the path is
\* the default one (derive_kwargs, if there is one, is consulted, and an
\* error comes from derive_kwargs or a callable default only), and raises
\* DerivingArgsError when the user supplied the path.
C14_MissingKey ==
    LookupMissesKey =>
        IF given.user_passed_path
        THEN resolved.error = "DerivingArgsError"
        ELSE /\ given.derive # "none" => resolved.derive_calls >= 1
             /\ resolved.error = "DerivingArgsError" =>
                    \/ given.derive = Raises
                    \/ \E p \in {"x", "y"} :
                           sig[p] = "callable" /\ given.dyn[p] = Raises
             /\ (resolved.error = "none" /\ given.derive # "dict") =>
                    \A p \in {"x", "y"} :
                        Supplied(p) = {} => resolved.received[p] = PlainDefault

\* The user gave a path that misses a key: the call raised although
\* derive_kwargs had a value for x.
C14_Witness ==
    /\ LookupMissesKey
    /\ given.user_passed_path
    /\ given.derive = "dict"
    /\ "x" \in DOMAIN given.derived
    /\ Supplied("x") = {3}
    /\ resolved.error = "DerivingArgsError"
    /\ resolved.derive_calls = 0

\* C15, as stated: within one call of a get_params_from_ctx function,
\* derive_kwargs is invoked at most once, whatever mapping it returns and
\* however many parameters fall through to it.
C15_AsStated ==
    Called => resolved.derive_calls <= 1

\* The first source that supplies a value for p supplies a falsy one.
FalsyFirst(p) ==
    Supplied(p) # {} /\ ~Truthy(SourcesOf(p)[FirstSource(p)].value)

\* C22: a value supplied by an earlier source of the cascade stops the
\* cascade even when it is falsy or None: the function receives the falsy
\* value, neither a value of a later source nor the declared default, and no
\* later source that is a callable default is called. So a None passed
\* directly is not replaced by a configured value, and a falsy configured
\* value is not replaced by the declared default.
C22_FalsyValueStops ==
    Called =>
        \A p \in {"x", "y"} :
            FalsyFirst(p) =>
                /\ resolved.error = "none" => resolved.received[p] = None
                /\ FirstSource(p) < 4 => p \notin resolved.defaults_called

\* x declares a plain default and the configuration holds a falsy x: the
\* function received the falsy value. y was passed as None with a truthy y
\* configured: the function received None.
C22_Witness ==
    /\ Called
    /\ resolved.error = "none"
    /\ sig["x"] = "plain"
    /\ Supplied("x") = {2}
    /\ given.cfg["x"] = None
    /\ resolved.received["x"] = None
    /\ Supplied("y") = {1, 2}
    /\ Get(given.kwargs, "y") = None
    /\ given.cfg["y"] = "1"
    /\ resolved.received["y"] = None

----------------------------------------------------------------------------
(* Properties of get_params_from_ctx, under SpecGPE *)

\* sig.bind_partial(*args, **kwargs) refuses the call: too many positional
\* arguments, an unexpected keyword, or an argument given twice.
TooManyPositional == Len(given.args) > Len(Params)
UnexpectedKeyword == ~(DOMAIN given.kwargs \subseteq SeqToSet(Params))
BindRefuses == get_directly_passed(given.args, given.kwargs).error # "none"

\* The configuration lookup of the call raises: the user gave a path and
\* there is no ctx or the path leads nowhere.
LookupRaises ==
    given.user_passed_path /\ (~Truthy(CtxOf(given.args)) \/ ~given.found)

\* The cascade for p comes to a source that raises.
FailsAt(p) ==
    /\ ~SourcesOf(p)[1].supplies
    /\ \/ LookupRaises
       \/ /\ ~SourcesOf(p)[2].supplies
          /\ \/ given.derive = Raises
             \/ /\ ~SourcesOf(p)[3].supplies
                /\ sig[p] = "callable"
                /\ given.dyn[p] = Raises

\* The wrapped function was invoked: it received its arguments.
Invoked == resolved.received # << >>

\* C23: whenever argument resolution fails the error is raised to the caller
\* and the wrapped function is not invoked: too many positional arguments, an
\* unexpected keyword or an argument given twice raise TypeError; an
\* exception raised by the configuration lookup, by derive_kwargs or by a
\* callable default that the cascade comes to raises DerivingArgsError; a
\* required parameter that no source supplies raises TypeError. A call with
\* none of these failures invokes the function.
C23_ResolutionErrorsSurface ==
    Called =>
        /\ resolved.error # "none" => ~Invoked
        /\ IF BindRefuses
           THEN resolved.error = "TypeError" /\ resolved.missing = << >>
           ELSE IF \E p \in SeqToSet(Params) : FailsAt(p)
           THEN resolved.error = "DerivingArgsError"
           ELSE IF \E p \in SeqToSet(Params) : Unresolved(p)
           THEN resolved.error = "TypeError" /\ resolved.missing # << >>
           ELSE resolved.error = "none" /\ Invoked
        /\ (TooManyPositional \/ UnexpectedKeyword) => BindRefuses

\* myfunc(ctx, x=raising default) called as myfunc(), as the test does: the
\* default raised and the call ended in DerivingArgsError.
C23_Witness ==
    /\ Called
    /\ given.args = << >>
    /\ given.kwargs = << >>
    /\ sig["x"] = "callable"
    /\ given.dyn["x"] = Raises
    /\ Supplied("x") = {}
    /\ resolved.error = "DerivingArgsError"
    /\ ~Invoked

----------------------------------------------------------------------------
(* Properties of Task.__call__, under SpecTK *)

\* The call is made on a task with a context, as a Python function.
CalledDirectly == pc # "no task" /\ ~task.called_by_executor

\* The places in the order of events where a pre task, a skip_if, the body or
\* a post task was called.
Positions(kind) == {k \in DOMAIN events : events[k][1] = kind}

\* The skip_ifs that return a truthy value, and how many skip_ifs are
\* evaluated: all of them, or those up to the first truthy one.
TruthySkipIfs == {i \in DOMAIN task.skip_ifs : Truthy(task.skip_ifs[i])}
Evaluated ==
    IF TruthySkipIfs = {} THEN Len(task.skip_ifs)
    ELSE CHOOSE i \in TruthySkipIfs : \A j \in TruthySkipIfs : i <= j

\* C24, as stated: when a Task that takes a context is called directly as a
\* Python function and its body does not raise, all its pre tasks are called
\* before its skip_ifs, the skip_ifs are evaluated in order until the first
\* truthy result, the body runs only after them and only if no skip_if was
\* truthy, and all post tasks are called after the body.
C24_AsStated ==
    (CalledDirectly /\ pc = "done" /\ outcome # "BodyError") =>
        /\ SelectSeq(events, LAMBDA e : e[1] = "pre")
               = [i \in 1..task.pre |-> <<"pre", i>>]
        /\ \A a \in Positions("pre") : \A b \in Positions("skip_if") : a < b
        /\ SelectSeq(events, LAMBDA e : e[1] = "skip_if")
               = [i \in 1..Evaluated |-> <<"skip_if", i>>]
        /\ Positions("body") # {} <=> TruthySkipIfs = {}
        /\ \A b \in Positions("body") :
               \A a \in Positions("pre") \cup Positions("skip_if") : a < b
        /\ SelectSeq(events, LAMBDA e : e[1] = "post")
               = [i \in 1..task.post |-> <<"post", i>>]
        /\ \A c \in Positions("post") : \E b \in Positions("body") : b < c

----------------------------------------------------------------------------
(* Properties of invocations that run at the same time, under SpecRC *)

\* C25, as stated: when two invocations of the same wrapped callable on the
\* same output path run at the same time without locking, every interleaving
\* of their check, run, marker-write and cache-write steps ends in a state
\* where a call is skipped only if the output on disk was last produced with
\* that call's own flags.
C25_AsStated ==
    [][(BothReturned /\ CallStep /\ body' = "not run") =>
           \A o \in SeqToSet(info'.output_paths) :
               o \in DOMAIN made /\ made[o] = care_about(info')]_vars


----------------------------------------------------------------------------
(* The summary of a clean, under SpecMy *)

\* The user files that are there before the step and gone after it.
RemovedFiles == DOMAIN files \ DOMAIN files'

\* The summary reports n files.
Reports(summary, n) ==
    CASE n = 0 -> summary = "Cleaned all 0 output files!"
      [] n = 1 -> summary = "Cleaned all 1 output files!"
      [] n = 2 -> summary = "Cleaned all 2 output files!"
      [] OTHER -> FALSE

\* C31, as stated: the summary returned by a clean request reports the number
\* of files that the clean removed.
C31_AsStated ==
    [][(CallStep /\ CleanOnly') => Reports(ret', Cardinality(RemovedFiles))]_vars

\* C31, amended: the summary returned by a clean request reports the number
\* of output paths of the call, len(ci.output_paths), a value that is no path
\* left out; the files removed are the output paths that existed, so the
\* number reported is the number removed exactly when each of them existed.
C31_CountsOutputPaths ==
    [][(CallStep /\ CleanOnly') =>
           /\ Reports(ret', Len(info'.output_paths))
           /\ RemovedFiles = SeqToSet(info'.output_paths) \cap DOMAIN files
           /\ Reports(ret', Cardinality(RemovedFiles))
                 <=> (SeqToSet(info'.output_paths) \subseteq DOMAIN files)]_vars

\* myfunc(None, _clean=True) named no output path and reported none, while
\* the file o1 is there.
C31_Witness ==
    /\ CleanOnly
    /\ call.func = "myfunc"
    /\ info.output_paths = << >>
    /\ ret = "Cleaned all 0 output files!"
    /\ "o1" \in DOMAIN files


----------------------------------------------------------------------------
(* The fingerprint and the way the arguments are passed, under SpecOpt *)

\* The value the call c binds to parameter p: the one passed, or the default.
Binds(c, p) == IF p \in DOMAIN c.kw THEN c.kw[p] ELSE Defaults[p]

\* The step is a call of the callable of the recorded call, both calls bind,
\* and they bind the same value to every behavior parameter.
SameBehaviorNext ==
    /\ CallStep
    /\ call # NoCall
    /\ call'.func = call.func
    /\ ~info.error
    /\ ~info'.error
    /\ \A p \in SeqToSet(params_modify_behavior(call.func)) :
           Binds(call, p) = Binds(call', p)

\* C32: the fingerprint of a call depends only on the callable's name and the
\* values bound to its behavior parameters. Two successive calls that bind
\* the same value to every behavior parameter, each passed or left to its
\* default, have the same flags, the same fingerprint and the same cache
\* file; and no call that comes to the checks is found to have outputs last
\* generated with different flags, so none is executed again for a mismatch
\* of the fingerprint.
C32_FingerprintOfValues ==
    [][/\ SameBehaviorNext =>
              /\ info'.flags = info.flags
              /\ care_about(info') = care_about(info)
              /\ last_result_path(info') = last_result_path(info)
       /\ (CallStep /\ Judged') =>
              verdict'.check.reason[1] # "last generated with different flags"]_vars

\* optional_param(flag=True), opt left to its default, was skipped and
\* returned the cached value: its flags are in the order of the signature.
C32_Witness ==
    /\ call = [func |-> "optional_param", kw |-> [flag |-> PyTrue]]
    /\ info.flags = << <<"opt", "1">>, <<"flag", PyTrue>> >>
    /\ checker.care_about = care_about(info)
    /\ verdict.check.skippable
    /\ body = "not run"
    /\ ret = "r1"


----------------------------------------------------------------------------
(* The cache file and the roles of the paths, under SpecTool *)

\* The step is a call of the callable of the recorded call, both calls bind,
\* and they do not name the same input paths and the same output paths.
OtherPathsNext ==
    /\ CallStep
    /\ call # NoCall
    /\ call'.func = call.func
    /\ ~info.error
    /\ ~info'.error
    /\ <<info'.input_paths, info'.output_paths>> # <<info.input_paths, info.output_paths>>

\* C33, as stated: the cache file of a call is determined injectively by the
\* callable name, the input paths, the output paths, the flags and the code
\* hash, so two calls of a callable that differ in which path is passed as
\* input and which as output never share a cached return value: when a call
\* has executed the function and cached its value, a next call with other
\* input or output paths is not skipped with the value from that cache file.
C33_AsStated ==
    [][(OtherPathsNext /\ body \in BodyReturns \ {Unpicklable} /\ raised = "none") =>
           ~(/\ body' = "not run"
             /\ checker'.last_result_path = checker.last_result_path
             /\ ret' = ret)]_vars


----------------------------------------------------------------------------
(* What a skipped call leaves on disk, under SpecGen *)

\* C34: a call that is skipped and returns a cached value leaves the
\* persisted state unchanged: no output file, marker file or cache file is
\* created, rewritten or deleted by that call.
C34_SkipWritesNothing ==
    [][(CallStep /\ ReturnedCached') =>
           /\ files' = files
           /\ flagfiles' = flagfiles
           /\ cache' = cache
           /\ cacheflags' = cacheflags]_vars

\* gen(o1) was skipped and returned the cached r1; the cache file and the
\* output are older than the call.
C34_Witness ==
    /\ ReturnedCached
    /\ call.func = "gen"
    /\ info.output_paths = <<"o1">>
    /\ ret = "r1"
    /\ "o1" \in DOMAIN files
    /\ files["o1"] < now
    /\ cache[last_result_path(info)].mtime < now


----------------------------------------------------------------------------
(* A wrapped function that raises, under SpecBuild *)

\* C35, as stated: when the wrapped function raises during a real execution,
\* the exception propagates to the caller and no marker file or cache file is
\* written or changed by that call (a clean the call itself asked for set
\* aside), so a later identical call cannot be skipped on the strength of
\* the failed run: the same call, made again right after it, executes the
\* function.
C35_AsStated ==
    [][/\ (CallStep /\ body' = BodyRaises) =>
              /\ raised' = "BodyError"
              /\ ~AskedClean' =>
                     /\ flagfiles' = flagfiles
                     /\ cache' = cache
                     /\ cacheflags' = cacheflags
       /\ (body = BodyRaises /\ CallStep /\ call' = call) => body' # "not run"]_vars


----------------------------------------------------------------------------
(* A return value that cannot be saved, under SpecBuild *)

\* C36: after a call fails with SaveReturnvalueError, the next identical call
\* never returns a cached value: it executes the wrapped function again, even
\* though the markers of the failed call were written. The failed call leaves
\* its markers and a cache file that does not load; the same call, made
\* again, executes the function, after a failed load when both checks found
\* it skippable.
C36_SaveFailureRunsAgain ==
    [][/\ (CallStep /\ raised' = "SaveReturnvalueError") =>
              /\ MarkersNext
              /\ last_result_path(info') \in DOMAIN cache'
              /\ ~Unpickles(cache'[last_result_path(info')].data)
       /\ (raised = "SaveReturnvalueError" /\ CallStep /\ call' = call) =>
              /\ body' # "not run"
              /\ (verdict'.result.skippable /\ ~AskedForce') => loadfail']_vars

\* build(src, o1), asked for neither clean nor force_run, was found skippable
\* by both checks on the markers of a call that could not save its value; the
\* load failed, the function ran again and returned r1.
C36_Witness ==
    /\ Plain
    /\ call.func = "build"
    /\ verdict.check.skippable
    /\ verdict.fs.skippable
    /\ loadfail
    /\ body = "r1"
    /\ ret = "r1"
    /\ flagfiles["o1"] = care_about(info)


----------------------------------------------------------------------------
(* A clean and the cached values of other arguments, under SpecGen *)

\* No cache file of callable f exists.
NoCacheOf(f) == \A k \in DOMAIN cache : k.name # f

----------------------------------------------------------------------------
(* C38 *)

\* The step is a call of callable A that comes to the checks, right after
\* an execution of another callable B that returned normally, both naming
\* output path "o1", when A has a cached value for these very arguments
\* (A produced "o1" before B did).
AfterOtherCallable ==
    /\ CallStep
    /\ Judged'
    /\ ~AskedForce'
    /\ call # NoCall
    /\ call.func # call'.func
    /\ body \in BodyReturns \ {Unpicklable}
    /\ raised = "none"
    /\ "o1" \in SeqToSet(info.output_paths)
    /\ "o1" \in SeqToSet(info'.output_paths)
    /\ last_result_path(info') \in DOMAIN cache

\* C38 as stated: a marker is scoped to the callable that produced the
\* output: once callable B has executed and recorded output path O after
\* callable A did, A's next call with output O and unchanged arguments is
\* not skipped.
C38_AsStated ==
    [][AfterOtherCallable => body' # "not run"]_vars

\* C38, amended: the same for a callable A that has behavior flags. Once
\* callable B has executed and recorded output path O after A did, the
\* marker of O names B, and A's next call with output O and unchanged
\* arguments is not skipped: can_skip refuses, answering that O was last
\* generated with different flags if O is on disk, and the body runs. (A
\* callable without flags never reads a marker: its can_skip answers "has no
\* flags" first.)
C38_MarkerScopedWithFlags ==
    [][(AfterOtherCallable /\ info'.flags # << >>) =>
           /\ flagfiles["o1"].task = call.func
           /\ ~verdict'.check.skippable
           /\ ("o1" \in DOMAIN files) =>
                  verdict'.check.reason = <<"last generated with different flags", "o1">>
           /\ body' # "not run"]_vars

\* build(src, o1) was called with a cached value of its own at hand and
\* files no older than its input, the marker of o1 being get_output's:
\* can_skip refused on the marker, and the body ran (and raised, which
\* leaves the marker as the call found it).
C38_Witness ==
    /\ Judged
    /\ call.func = "build"
    /\ ~AskedForce
    /\ verdict.fs.skippable
    /\ verdict.check.reason = <<"last generated with different flags", "o1">>
    /\ body = BodyRaises
    /\ "o1" \in DOMAIN flagfiles
    /\ flagfiles["o1"].task = _get_full_name("get_output")

----------------------------------------------------------------------------
(* C39 *)

\* C39 as stated: when a skip_if task of a directly-called Task returns a
\* truthy value, the body is not executed and the call returns to the caller
\* without raising an error.
C39_AsStated ==
    (CalledDirectly /\ pc = "done" /\ TruthySkipIfs # {}) =>
        /\ Positions("body") = {}
        /\ outcome = "returned"

====
